---- MODULE Spec2Model ----
(***************************************************************************)
(* Model of the GA4 connector's query path: predicate parsing and filter   *)
(* building (filters.ts, in the two revisions the repository carries),     *)
(* date normalisation and the runQuery pipeline (query.ts).                *)
(*                                                                         *)
(* Strings the code inspects are sequences: column names are sequences of  *)
(* tokens ("dimension_" is one token), date strings are sequences of       *)
(* characters.  JavaScript values carry their typeof tag.                  *)
(***************************************************************************)
EXTENDS Integers, Sequences, FiniteSets, TLC

VARIABLES
    build,        \* which revision of filters.ts is linked in
    pc,           \* per query: position inside runQuery
    request,      \* per query: the QueryRequest handed to runQuery
    local,        \* per query: runQuery's local variables
    sent,         \* per query: sequence of requests passed to client.runReport
    response,     \* per query: what client.runReport resolved with
    outcome,      \* per query: what runQuery returned or threw
    dpc,          \* date conversion: position
    dIn,          \* date conversion: input string
    dOut,         \* date conversion: sequence of successive results
    bpc,          \* filter builder called on its own: position
    bIn,          \* filter builder: parse result and existing dimension filter
    bOut          \* filter builder: what buildGA4Filters returned

vars == <<build, pc, request, local, sent, response, outcome, dpc, dIn, dOut,
         bpc, bIn, bOut>>

qvars == <<pc, request, local, sent, response, outcome>>
dvars == <<dpc, dIn, dOut>>
bvars == <<bpc, bIn, bOut>>

-----------------------------------------------------------------------------
(* Bounds *)

MaxChildren == 2      \* children of an and/or node
MaxFields   == 2      \* entries of the field-selection map
MaxRows     == 2      \* rows of a report response

-----------------------------------------------------------------------------
(* JavaScript values and strings.  A string value is [t |-> "string", v |-> s]; *)
(* s is a sequence of characters where the code looks inside the string    *)
(* (dates, response values) and an opaque string where it does not (filter *)
(* literals).                                                              *)

UNDEFINED == [undefined |-> TRUE]
NULL      == [null |-> TRUE]

JsString(s) == [t |-> "string", v |-> s]
JsNumber(n) == [t |-> "number", v |-> n]
JsBoolean(b) == [t |-> "boolean", v |-> b]
JsObject(entries) == [t |-> "object", entries |-> entries]
JsArray(items) == [t |-> "object", items |-> items]

typeof(x) == IF x = UNDEFINED THEN "undefined"
             ELSE IF x = NULL THEN "object"
             ELSE x.t

\* String.prototype.startsWith on sequences
startsWith(s, p) == Len(p) <= Len(s) /\ SubSeq(s, 1, Len(p)) = p

\* String.prototype.replace(p, "") with a string pattern: the first occurrence
replace(s, p) ==
    LET hits == {i \in 1..(Len(s) - Len(p) + 1) : SubSeq(s, i, i + Len(p) - 1) = p}
    IN  IF hits = {} THEN s
        ELSE LET i == CHOOSE j \in hits : \A k \in hits : j <= k
             IN  SubSeq(s, 1, i - 1) \o SubSeq(s, i + Len(p), Len(s))

DIMENSION_PREFIX == <<"dimension_">>
METRIC_PREFIX    == <<"metric_">>

\* Number(value) on the scalar values the model draws; the result is a double,
\* written [nan |-> TRUE] for NaN and [nan |-> FALSE, n |-> i] for the number i
NaN == [nan |-> TRUE]
Double(i) == [nan |-> FALSE, n |-> i]

Number(x) ==
    CASE typeof(x) = "number"  -> Double(x.v)
      [] typeof(x) = "boolean" -> IF x.v THEN Double(1) ELSE Double(0)
      [] typeof(x) = "string"  ->
            CASE x.v = "100" -> Double(100)
              [] x.v = ""    -> Double(0)
              [] OTHER       -> NaN
      [] OTHER -> NaN

isNaN(d) == d.nan

-----------------------------------------------------------------------------
(* filters.ts *)

Builds == {"src/filters.ts", "part_003"}

SUPPORTED_OPERATORS_v1 == {"_eq"}

SUPPORTED_OPERATORS == {"_eq", "_gt", "_lt", "_like"}

\* mutant: every operator passes validation
isSupportedOperator_any(b, operator) == TRUE

isSupportedOperator(b, operator) ==
    IF b = "part_003" THEN operator \in SUPPORTED_OPERATORS
                      ELSE operator \in SUPPORTED_OPERATORS_v1

validateFilterSupport(b, operator) ==
    IF ~isSupportedOperator(b, operator)
    THEN [isSupported |-> FALSE, error |-> "Operator is not supported"]
    ELSE [isSupported |-> TRUE]

EmptyParseResult == [dimensionFilters |-> <<>>, metricFilters |-> <<>>, errors |-> <<>>]

pushError(result, e) == [result EXCEPT !.errors = Append(@, e)]

\* mutant: every column that is not a metric counts as a dimension
extractColumnInfo_defaultDimension(target) ==
    IF target.type \in {"column", "root_collection_column"}
    THEN [name |-> target.name,
          isDimension |-> ~startsWith(target.name, METRIC_PREFIX),
          isMetric |-> startsWith(target.name, METRIC_PREFIX)]
    ELSE NULL

extractColumnInfo(target) ==
    IF target.type \in {"column", "root_collection_column"}
    THEN [name |-> target.name,
          isDimension |-> startsWith(target.name, DIMENSION_PREFIX),
          isMetric |-> startsWith(target.name, METRIC_PREFIX)]
    ELSE NULL

\* mutant: a variable is compared by its name
extractComparisonValue_variableAsName(value) ==
    CASE value.type = "scalar"   -> value.value
      [] value.type = "variable" -> JsString(value.name)
      [] value.type = "column"   -> NULL
      [] OTHER                   -> NULL

extractComparisonValue(value) ==
    CASE value.type = "scalar"   -> value.value
      [] value.type = "variable" -> NULL
      [] value.type = "column"   -> NULL
      [] OTHER                   -> NULL

\* lines 202-220 of part_003 (173-191 of src/filters.ts): create the parsed
\* filter and add it to the appropriate list
\* mutant: a column that is neither dimension nor metric is skipped silently
addParsedFilter_skipsUnclassified(expression, columnInfo, value, result) ==
    LET filter == [columnName |-> columnInfo.name,
                   operator |-> expression.operator,
                   value |-> value,
                   isDimension |-> columnInfo.isDimension,
                   isMetric |-> columnInfo.isMetric]
    IN  IF filter.isDimension
        THEN [result EXCEPT !.dimensionFilters = Append(@, filter)]
        ELSE IF filter.isMetric
        THEN [result EXCEPT !.metricFilters = Append(@, filter)]
        ELSE result

addParsedFilter(expression, columnInfo, value, result) ==
    LET filter == [columnName |-> columnInfo.name,
                   operator |-> expression.operator,
                   value |-> value,
                   isDimension |-> columnInfo.isDimension,
                   isMetric |-> columnInfo.isMetric]
    IN  IF filter.isDimension
        THEN [result EXCEPT !.dimensionFilters = Append(@, filter)]
        ELSE IF filter.isMetric
        THEN [result EXCEPT !.metricFilters = Append(@, filter)]
        ELSE pushError(result, "Column is neither a dimension nor a metric")

parseBinaryComparison_v1(expression, result) ==
    LET validation == validateFilterSupport("src/filters.ts", expression.operator)
        columnInfo == extractColumnInfo(expression.column)
        value      == extractComparisonValue(expression.value)
    IN  IF ~validation.isSupported THEN pushError(result, validation.error)
        ELSE IF columnInfo = NULL
        THEN pushError(result, "Failed to extract column information from comparison target")
        ELSE IF value = NULL \/ value = UNDEFINED
        THEN pushError(result, "Failed to extract value from comparison")
        ELSE addParsedFilter(expression, columnInfo, value, result)

parseBinaryComparison(expression, result) ==
    LET validation == validateFilterSupport("part_003", expression.operator)
        columnInfo == extractColumnInfo(expression.column)
        value      == extractComparisonValue(expression.value)
    IN  IF ~validation.isSupported THEN pushError(result, validation.error)
        ELSE IF columnInfo = NULL
        THEN pushError(result, "Failed to extract column information from comparison target")
        ELSE IF value = NULL \/ value = UNDEFINED
        THEN pushError(result, "Failed to extract value from comparison")
        ELSE IF columnInfo.isDimension /\ expression.operator \in {"_gt", "_lt"}
        THEN pushError(result, "Operator is not supported for dimensions")
        ELSE IF columnInfo.isMetric /\ expression.operator = "_like"
        THEN pushError(result, "Operator is not supported for metrics")
        ELSE addParsedFilter(expression, columnInfo, value, result)

RECURSIVE parseExpressionRecursive(_, _, _)
RECURSIVE parseEach(_, _, _)

\* mutant: the walk over the children stops once an error is recorded
parseEach_stopsAtError(b, expressions, result) ==
    IF expressions = <<>> \/ result.errors # <<>> THEN result
    ELSE parseEach(b, Tail(expressions),
                   parseExpressionRecursive(b, Head(expressions), result))

\* expression.expressions.forEach((expr) => parseExpressionRecursive(expr, result))
parseEach(b, expressions, result) ==
    IF expressions = <<>> THEN result
    ELSE parseEach(b, Tail(expressions),
                   parseExpressionRecursive(b, Head(expressions), result))

\* mutant: an or node is walked like an and node, without a note
parseExpressionRecursive_orSilent(b, expression, result) ==
    CASE expression.type = "and" -> parseEach(b, expression.expressions, result)
      [] expression.type = "or" -> parseEach(b, expression.expressions, result)
      [] expression.type = "not" ->
            pushError(result, "NOT expressions are not supported in GA4 filters")
      [] expression.type = "binary_comparison_operator" ->
            IF b = "part_003" THEN parseBinaryComparison(expression, result)
                              ELSE parseBinaryComparison_v1(expression, result)
      [] expression.type = "exists" ->
            pushError(result, "EXISTS expressions are not supported in GA4 filters")
      [] expression.type = "unary_comparison_operator" ->
            pushError(result, "Unary comparison operators are not supported in GA4 filters")
      [] OTHER -> pushError(result, "Unknown expression type")

\* mutant: the operand of a not node is walked after the error is recorded
parseExpressionRecursive_walksNot(b, expression, result) ==
    CASE expression.type = "and" -> parseEach(b, expression.expressions, result)
      [] expression.type = "or" ->
            parseEach(b, expression.expressions,
                      pushError(result, "OR expressions are not fully supported yet"))
      [] expression.type = "not" ->
            parseExpressionRecursive(b, expression.expression,
                pushError(result, "NOT expressions are not supported in GA4 filters"))
      [] expression.type = "binary_comparison_operator" ->
            IF b = "part_003" THEN parseBinaryComparison(expression, result)
                              ELSE parseBinaryComparison_v1(expression, result)
      [] expression.type = "exists" ->
            pushError(result, "EXISTS expressions are not supported in GA4 filters")
      [] expression.type = "unary_comparison_operator" ->
            pushError(result, "Unary comparison operators are not supported in GA4 filters")
      [] OTHER -> pushError(result, "Unknown expression type")

parseExpressionRecursive(b, expression, result) ==
    CASE expression.type = "and" -> parseEach(b, expression.expressions, result)
      [] expression.type = "or" ->
            parseEach(b, expression.expressions,
                      pushError(result, "OR expressions are not fully supported yet"))
      [] expression.type = "not" ->
            pushError(result, "NOT expressions are not supported in GA4 filters")
      [] expression.type = "binary_comparison_operator" ->
            IF b = "part_003" THEN parseBinaryComparison(expression, result)
                              ELSE parseBinaryComparison_v1(expression, result)
      [] expression.type = "exists" ->
            pushError(result, "EXISTS expressions are not supported in GA4 filters")
      [] expression.type = "unary_comparison_operator" ->
            pushError(result, "Unary comparison operators are not supported in GA4 filters")
      [] OTHER -> pushError(result, "Unknown expression type")

\* mutant: a missing predicate is reported as a parse error
parsePredicateFilters_missingIsError(b, predicate) ==
    IF predicate = NULL \/ predicate = UNDEFINED
    THEN pushError(EmptyParseResult, "Failed to parse predicate")
    ELSE parseExpressionRecursive(b, predicate, EmptyParseResult)

parsePredicateFilters(b, predicate) ==
    IF predicate = NULL \/ predicate = UNDEFINED THEN EmptyParseResult
    ELSE parseExpressionRecursive(b, predicate, EmptyParseResult)

\* existingFilter?.filter
HasLeaf(expr) == expr # UNDEFINED /\ "filter" \in DOMAIN expr

createGA4DimensionFilter_v1(filter, errors) ==
    LET fieldName == replace(filter.columnName, DIMENSION_PREFIX)
    IN  IF typeof(filter.value) # "string"
        THEN [leaf |-> NULL,
              errors |-> Append(errors, "Dimension filter value must be a string")]
        ELSE [leaf |-> [fieldName |-> fieldName,
                        stringFilter |-> [value |-> filter.value.v, matchType |-> "EXACT"]],
              errors |-> errors]

\* mutant: a value of another type is turned into a string
createGA4DimensionFilter_coerces(filter, errors) ==
    LET fieldName == replace(filter.columnName, DIMENSION_PREFIX)
        stringValue == IF typeof(filter.value) = "string" THEN filter.value.v ELSE "100"
    IN  IF filter.operator = "_eq"
        THEN [leaf |-> [fieldName |-> fieldName,
                        stringFilter |-> [value |-> stringValue, matchType |-> "EXACT"]],
              errors |-> errors]
        ELSE IF filter.operator = "_like"
        THEN [leaf |-> [fieldName |-> fieldName,
                        stringFilter |-> [value |-> stringValue,
                                          matchType |-> "PARTIAL_REGEXP"]],
              errors |-> errors]
        ELSE [leaf |-> NULL,
              errors |-> Append(errors, "Unsupported dimension filter operator")]

createGA4DimensionFilter(filter, errors) ==
    LET fieldName == replace(filter.columnName, DIMENSION_PREFIX)
    IN  IF typeof(filter.value) # "string"
        THEN [leaf |-> NULL,
              errors |-> Append(errors, "Dimension filter value must be a string")]
        ELSE IF filter.operator = "_eq"
        THEN [leaf |-> [fieldName |-> fieldName,
                        stringFilter |-> [value |-> filter.value.v, matchType |-> "EXACT"]],
              errors |-> errors]
        ELSE IF filter.operator = "_like"
        THEN [leaf |-> [fieldName |-> fieldName,
                        stringFilter |-> [value |-> filter.value.v,
                                          matchType |-> "PARTIAL_REGEXP"]],
              errors |-> errors]
        ELSE [leaf |-> NULL,
              errors |-> Append(errors, "Unsupported dimension filter operator")]

createGA4MetricFilter_v1(filter, errors) ==
    LET fieldName    == replace(filter.columnName, METRIC_PREFIX)
        numericValue == Number(filter.value)
    IN  IF isNaN(numericValue)
        THEN [leaf |-> NULL,
              errors |-> Append(errors, "Metric filter value must be numeric")]
        ELSE [leaf |-> [fieldName |-> fieldName,
                        numericFilter |-> [operation |-> "EQUAL",
                                           value |-> [doubleValue |-> numericValue.n]]],
              errors |-> errors]

createGA4MetricFilter(filter, errors) ==
    LET fieldName    == replace(filter.columnName, METRIC_PREFIX)
        numericValue == Number(filter.value)
    IN  IF isNaN(numericValue)
        THEN [leaf |-> NULL,
              errors |-> Append(errors, "Metric filter value must be numeric")]
        ELSE IF filter.operator \in {"_eq", "_gt", "_lt"}
        THEN [leaf |-> [fieldName |-> fieldName,
                        numericFilter |->
                            [operation |-> CASE filter.operator = "_eq" -> "EQUAL"
                                             [] filter.operator = "_gt" -> "GREATER_THAN"
                                             [] filter.operator = "_lt" -> "LESS_THAN",
                             value |-> [doubleValue |-> numericValue.n]]],
              errors |-> errors]
        ELSE [leaf |-> NULL,
              errors |-> Append(errors, "Unsupported metric filter operator")]

\* The conversion loops of buildDimensionFilter / buildMetricFilter: acc is
\* [filterExpressions, errors]
\* if (ga4Filter) filterExpressions.push(ga4Filter), with the errors it left
pushConverted(acc, r) ==
    [filterExpressions |-> IF r.leaf # NULL THEN Append(acc.filterExpressions, r.leaf)
                           ELSE acc.filterExpressions,
     errors |-> r.errors]

RECURSIVE convertDimensionFilters(_, _, _)
convertDimensionFilters(b, filters, acc) ==
    IF filters = <<>> THEN acc
    ELSE convertDimensionFilters(b, Tail(filters),
            pushConverted(acc, IF b = "part_003"
                               THEN createGA4DimensionFilter(Head(filters), acc.errors)
                               ELSE createGA4DimensionFilter_v1(Head(filters), acc.errors)))

RECURSIVE convertMetricFilters(_, _, _)
convertMetricFilters(b, filters, acc) ==
    IF filters = <<>> THEN acc
    ELSE convertMetricFilters(b, Tail(filters),
            pushConverted(acc, IF b = "part_003"
                               THEN createGA4MetricFilter(Head(filters), acc.errors)
                               ELSE createGA4MetricFilter_v1(Head(filters), acc.errors)))

\* The tail of both builders: 0 -> undefined, 1 -> single leaf, else AND-group
combine(filterExpressions) ==
    IF Len(filterExpressions) = 0 THEN UNDEFINED
    ELSE IF Len(filterExpressions) = 1 THEN [filter |-> filterExpressions[1]]
    ELSE [andGroup |-> [expressions |->
            [i \in 1..Len(filterExpressions) |-> [filter |-> filterExpressions[i]]]]]

\* the value a builder returns, with the errors array it pushed to
combined(acc) == [value |-> combine(acc.filterExpressions), errors |-> acc.errors]

\* mutant: the existing filter is not carried into the combination
buildDimensionFilter_dropsExisting(b, filters, existingFilter, errors) ==
    combined(convertDimensionFilters(b, filters,
                [filterExpressions |-> <<>>, errors |-> errors]))

buildDimensionFilter(b, filters, existingFilter, errors) ==
    combined(convertDimensionFilters(b, filters,
                [filterExpressions |-> IF HasLeaf(existingFilter)
                                       THEN <<existingFilter.filter>> ELSE <<>>,
                 errors |-> errors]))

\* mutant: the metric filter starts from the scoping leaf as the dimension filter does
buildMetricFilter_withMandatory(b, filters, errors) ==
    combined(convertMetricFilters(b, filters,
                [filterExpressions |-> <<[fieldName |-> <<"hostName">>,
                                          stringFilter |-> [value |-> "example.com",
                                                            matchType |-> "EXACT"]]>>,
                 errors |-> errors]))

buildMetricFilter(b, filters, errors) ==
    combined(convertMetricFilters(b, filters,
                [filterExpressions |-> <<>>, errors |-> errors]))

\* lines 294-303: d is the dimension filter with the errors so far
buildGA4FiltersMetric(b, parseResult, d, m) ==
    [dimensionFilter |-> d.value, metricFilter |-> m.value, errors |-> m.errors]

\* lines 294-297
buildGA4FiltersFrom(b, parseResult, d) ==
    buildGA4FiltersMetric(b, parseResult, d,
        IF Len(parseResult.metricFilters) > 0
        THEN buildMetricFilter(b, parseResult.metricFilters, d.errors)
        ELSE [value |-> UNDEFINED, errors |-> d.errors])

buildGA4Filters(b, parseResult, existingDimensionFilter) ==
    buildGA4FiltersFrom(b, parseResult,
        IF Len(parseResult.dimensionFilters) > 0
        THEN buildDimensionFilter(b, parseResult.dimensionFilters,
                                  existingDimensionFilter, parseResult.errors)
        ELSE [value |-> existingDimensionFilter, errors |-> parseResult.errors])

-----------------------------------------------------------------------------
(* query.ts: convertDateFormat *)

Digits == {"0", "1", "2", "3", "4", "5", "6", "7", "8", "9"}

AllDigits(s) == \A i \in 1..Len(s) : s[i] \in Digits

\* String(x) as RegExp.prototype.test applies it to its argument
StringOf(x) == IF x = UNDEFINED THEN <<"u", "n", "d", "e", "f", "i", "n", "e", "d">>
               ELSE x.v

\* /^\d{4}-\d{2}-\d{2}$/
ReIsoDate(s) ==
    /\ Len(s) = 10
    /\ AllDigits(SubSeq(s, 1, 4)) /\ s[5] = "-"
    /\ AllDigits(SubSeq(s, 6, 7)) /\ s[8] = "-"
    /\ AllDigits(SubSeq(s, 9, 10))

\* /^\d{4}-\d{2}-\d{2}T\d{2}:\d{2}:\d{2}$/
ReIsoDateTime(s) ==
    /\ Len(s) = 19
    /\ ReIsoDate(SubSeq(s, 1, 10)) /\ s[11] = "T"
    /\ AllDigits(SubSeq(s, 12, 13)) /\ s[14] = ":"
    /\ AllDigits(SubSeq(s, 15, 16)) /\ s[17] = ":"
    /\ AllDigits(SubSeq(s, 18, 19))

\* String.prototype.split(sep) for a one-character separator
RECURSIVE split(_, _)
split(s, sep) ==
    LET hits == {i \in 1..Len(s) : s[i] = sep}
    IN  IF hits = {} THEN <<s>>
        ELSE LET i == CHOOSE j \in hits : \A k \in hits : j <= k
             IN  <<SubSeq(s, 1, i - 1)>> \o split(SubSeq(s, i + 1, Len(s)), sep)

\* /^\d{1,2}\/\d{1,2}\/\d{4}$/
ReUsDate(s) ==
    LET parts == split(s, "/")
    IN  /\ Len(parts) = 3
        /\ Len(parts[1]) \in {1, 2} /\ AllDigits(parts[1])
        /\ Len(parts[2]) \in {1, 2} /\ AllDigits(parts[2])
        /\ Len(parts[3]) = 4 /\ AllDigits(parts[3])

\* mutant: no padding
padStart2_none(s) == s

\* String.prototype.padStart(2, "0")
padStart2(s) == IF Len(s) >= 2 THEN s
                ELSE IF Len(s) = 1 THEN <<"0">> \o s
                ELSE <<"0", "0">>

Threw(error, message) == [threw |-> TRUE, error |-> error, message |-> message]
Returned(value) == [threw |-> FALSE, value |-> value]

convertDateFormat(dateStr) ==
    LET str == StringOf(dateStr)
    IN  IF ReIsoDate(str) THEN Returned(dateStr)
        ELSE IF ReIsoDateTime(str) THEN Returned(JsString(SubSeq(dateStr.v, 1, 10)))
        ELSE IF ReUsDate(str)
        THEN LET parts == split(dateStr.v, "/")
             IN  Returned(JsString(parts[3] \o <<"-">> \o padStart2(parts[1])
                                            \o <<"-">> \o padStart2(parts[2])))
        ELSE Threw("UnprocessableContent", "Unsupported date format")

-----------------------------------------------------------------------------
(* Date strings the model draws *)

Years  == {<<"2", "0", "2", "4">>, <<"1", "9", "9", "9">>}
Months == {<<"0", "1">>, <<"1", "2">>, <<"0", "9">>}
Days   == {<<"0", "5">>, <<"3", "1">>}
Times  == {<<"1", "0", ":", "3", "0", ":", "0", "0">>,
           <<"2", "3", ":", "5", "9", ":", "5", "9">>}

Unpad(x) == IF x[1] = "0" THEN Tail(x) ELSE x

Iso(y, m, d)     == y \o <<"-">> \o m \o <<"-">> \o d
IsoT(y, m, d, t) == Iso(y, m, d) \o <<"T">> \o t
Us(y, m, d)      == m \o <<"/">> \o d \o <<"/">> \o y

\* the spellings of the calendar date (y, m, d) in the three supported formats
Spellings(y, m, d) ==
    {Iso(y, m, d), Us(y, m, d), Us(y, Unpad(m), Unpad(d)),
     Us(y, Unpad(m), d), Us(y, m, Unpad(d))}
    \cup {IsoT(y, m, d, t) : t \in Times}

SupportedDates == UNION {Spellings(y, m, d) : y \in Years, m \in Months, d \in Days}

UnsupportedDates ==
    {<<>>, <<"t", "o", "d", "a", "y">>, <<"7", "d", "a", "y", "s", "A", "g", "o">>}
    \cup {y \o <<"/">> \o m \o <<"/">> \o d : y \in Years, m \in Months, d \in Days}
    \cup {d \o <<"-">> \o m \o <<"-">> \o y : y \in Years, m \in Months, d \in Days}
    \cup {Iso(y, Unpad(m), d) : y \in Years, m \in {<<"0", "1">>}, d \in Days}
    \cup {IsoT(y, m, d, t) \o <<"Z">> : y \in Years, m \in {<<"1", "2">>},
                                         d \in Days, t \in Times}
    \cup {Iso(y, m, d) \o <<" ">> \o t : y \in {<<"2", "0", "2", "4">>},
                                          m \in {<<"1", "2">>}, d \in Days, t \in Times}
    \cup {Us(<<"2", "4">>, m, d) : m \in Months, d \in Days}
    \cup {<<" ">> \o Iso(y, m, d) : y \in Years, m \in {<<"0", "1">>}, d \in Days}

DateInputs == {JsString(s) : s \in SupportedDates \cup UnsupportedDates} \cup {UNDEFINED}

-----------------------------------------------------------------------------
(* Date conversion applied once, then again to its own result *)

DConvert ==
    /\ dpc = "start"
    /\ LET r == convertDateFormat(dIn)
       IN  IF r.threw THEN dpc' = "threw" /\ dOut' = dOut
           ELSE dpc' = "once" /\ dOut' = <<r.value>>
    /\ UNCHANGED <<dIn, build, qvars, bvars>>

DConvertAgain ==
    /\ dpc = "once"
    /\ LET r == convertDateFormat(dOut[1])
       IN  IF r.threw THEN dpc' = "threw again" /\ dOut' = dOut
           ELSE dpc' = "twice" /\ dOut' = Append(dOut, r.value)
    /\ UNCHANGED <<dIn, build, qvars, bvars>>

-----------------------------------------------------------------------------
(* JavaScript objects: a sequence of [key, value] entries in own-property   *)
(* order (integer-like keys ascending, then the other keys as inserted)    *)

IndexOf(k) == CASE k = "0" -> 0 [] k = "1" -> 1 [] OTHER -> -1
IsIndexKey(k) == IndexOf(k) >= 0

ObjHas(obj, k) == \E i \in 1..Len(obj) : obj[i].key = k

\* obj[k] = v
ObjSet(obj, k, v) ==
    IF ObjHas(obj, k)
    THEN [i \in 1..Len(obj) |-> IF obj[i].key = k THEN [key |-> k, value |-> v] ELSE obj[i]]
    ELSE IF IsIndexKey(k)
    THEN LET p == Cardinality({i \in 1..Len(obj) :
                        IsIndexKey(obj[i].key) /\ IndexOf(obj[i].key) < IndexOf(k)})
         IN  SubSeq(obj, 1, p) \o <<[key |-> k, value |-> v]>> \o SubSeq(obj, p + 1, Len(obj))
    ELSE Append(obj, [key |-> k, value |-> v])

RECURSIVE ObjFromEntries(_)
ObjFromEntries(entries) ==
    IF entries = <<>> THEN <<>>
    ELSE LET n == Len(entries)
         IN  ObjSet(ObjFromEntries(SubSeq(entries, 1, n - 1)), entries[n].key, entries[n].value)

ObjectKeys(obj)   == [i \in 1..Len(obj) |-> obj[i].key]
ObjectValues(obj) == [i \in 1..Len(obj) |-> obj[i].value]

\* a || b
Truthy(x) == x # UNDEFINED /\ x # NULL /\ ~(x.t = "string" /\ x.v = <<>>)
                          /\ ~(x.t = "number" /\ x.v = 0)
OrElse(a, b) == IF Truthy(a) THEN a ELSE b

-----------------------------------------------------------------------------
(* query.ts: runQuery up to the outbound call *)

Domain     == "example.com"
PropertyId == "123456789"

HOST_NAME == <<"hostName">>

\* lines 35-48: the loop over Object.entries(fields); acc holds the two maps
\* mutant: a column without a known prefix is requested as a dimension
RECURSIVE collectRequested_plainAsDimension(_, _)
collectRequested_plainAsDimension(entries, acc) ==
    IF entries = <<>> THEN acc
    ELSE LET fieldName == Head(entries).key
             fieldDef  == Head(entries).value
             next ==
                 IF fieldDef.type = "column"
                 THEN IF startsWith(fieldDef.column, METRIC_PREFIX)
                      THEN [acc EXCEPT !.requestedMetrics =
                                ObjSet(@, fieldName, replace(fieldDef.column, METRIC_PREFIX))]
                      ELSE [acc EXCEPT !.requestedDimensions =
                                ObjSet(@, fieldName, replace(fieldDef.column, DIMENSION_PREFIX))]
                 ELSE acc
         IN  collectRequested_plainAsDimension(Tail(entries), next)

RECURSIVE collectRequested(_, _)
collectRequested(entries, acc) ==
    IF entries = <<>> THEN acc
    ELSE LET fieldName == Head(entries).key
             fieldDef  == Head(entries).value
             next ==
                 IF fieldDef.type = "column"
                 THEN IF startsWith(fieldDef.column, DIMENSION_PREFIX)
                      THEN [acc EXCEPT !.requestedDimensions =
                                ObjSet(@, fieldName, replace(fieldDef.column, DIMENSION_PREFIX))]
                      ELSE IF startsWith(fieldDef.column, METRIC_PREFIX)
                      THEN [acc EXCEPT !.requestedMetrics =
                                ObjSet(@, fieldName, replace(fieldDef.column, METRIC_PREFIX))]
                      ELSE acc
                 ELSE acc
         IN  collectRequested(Tail(entries), next)

\* mutant: another rolling window
DEFAULT_START_30 == JsString(<<"3", "0", "d", "a", "y", "s", "A", "g", "o">>)

DEFAULT_START == JsString(<<"7", "d", "a", "y", "s", "A", "g", "o">>)
DEFAULT_END   == JsString(<<"t", "o", "d", "a", "y">>)

\* mutant: the end of the range is passed through when it does not convert
resolveDateRange_endUnchecked(args) ==
    IF args.dateRange # UNDEFINED /\ args.dateRange.type = "literal"
    THEN IF args.dateRange.value = NULL
         THEN Threw("TypeError", "Cannot read properties of null")
         ELSE
         LET dateRangeValue == args.dateRange.value
             rawStart  == OrElse(dateRangeValue.start_date, dateRangeValue.startDate)
             rawEnd    == OrElse(dateRangeValue.end_date, dateRangeValue.endDate)
             startDate == convertDateFormat(rawStart)
             endDate   == convertDateFormat(rawEnd)
         IN  IF startDate.threw THEN startDate
             ELSE [threw |-> FALSE, startDate |-> startDate.value,
                   endDate |-> IF endDate.threw THEN rawEnd ELSE endDate.value]
    ELSE [threw |-> FALSE, startDate |-> JsString(<<"7", "d", "a", "y", "s", "A", "g", "o">>),
          endDate |-> JsString(<<"t", "o", "d", "a", "y">>)]

\* mutant: the camelCase keys take precedence
resolveDateRange_camelFirst(args) ==
    IF args.dateRange # UNDEFINED /\ args.dateRange.type = "literal"
    THEN IF args.dateRange.value = NULL
         THEN Threw("TypeError", "Cannot read properties of null")
         ELSE
         LET dateRangeValue == args.dateRange.value
             rawStart  == OrElse(dateRangeValue.startDate, dateRangeValue.start_date)
             rawEnd    == OrElse(dateRangeValue.endDate, dateRangeValue.end_date)
             startDate == convertDateFormat(rawStart)
             endDate   == convertDateFormat(rawEnd)
         IN  IF startDate.threw THEN startDate
             ELSE IF endDate.threw THEN endDate
             ELSE [threw |-> FALSE, startDate |-> startDate.value, endDate |-> endDate.value]
    ELSE [threw |-> FALSE, startDate |-> DEFAULT_START, endDate |-> DEFAULT_END]

\* lines 50-63; reading a key of a null value throws a TypeError at line 58
resolveDateRange(args) ==
    IF args.dateRange # UNDEFINED /\ args.dateRange.type = "literal"
    THEN IF args.dateRange.value = NULL
         THEN Threw("TypeError", "Cannot read properties of null")
         ELSE
         LET dateRangeValue == args.dateRange.value
             rawStart  == OrElse(dateRangeValue.start_date, dateRangeValue.startDate)
             rawEnd    == OrElse(dateRangeValue.end_date, dateRangeValue.endDate)
             startDate == convertDateFormat(rawStart)
             endDate   == convertDateFormat(rawEnd)
         IN  IF startDate.threw THEN startDate
             ELSE IF endDate.threw THEN endDate
             ELSE [threw |-> FALSE, startDate |-> startDate.value, endDate |-> endDate.value]
    ELSE [threw |-> FALSE, startDate |-> DEFAULT_START, endDate |-> DEFAULT_END]

\* lines 78-86
hostDimensionFilter(domain) ==
    [filter |-> [fieldName |-> HOST_NAME,
                 stringFilter |-> [value |-> domain, matchType |-> "EXACT"]]]

\* mutant: a single error does not abort
filtersFailed_moreThanOne(ga4Filters) == Len(ga4Filters.errors) > 1

\* line 91
filtersFailed(ga4Filters) == Len(ga4Filters.errors) > 0

DEFAULT_LIMIT == 10000

Names(values) == [i \in 1..Len(values) |-> [name |-> values[i]]]

\* lines 107-110: the two conditional spreads
withFilters(base, d, m) ==
    IF d # UNDEFINED /\ m # UNDEFINED
    THEN [property |-> base.property, dateRanges |-> base.dateRanges,
          dimensions |-> base.dimensions, metrics |-> base.metrics,
          limit |-> base.limit, dimensionFilter |-> d, metricFilter |-> m]
    ELSE IF d # UNDEFINED
    THEN [property |-> base.property, dateRanges |-> base.dateRanges,
          dimensions |-> base.dimensions, metrics |-> base.metrics,
          limit |-> base.limit, dimensionFilter |-> d]
    ELSE IF m # UNDEFINED
    THEN [property |-> base.property, dateRanges |-> base.dateRanges,
          dimensions |-> base.dimensions, metrics |-> base.metrics,
          limit |-> base.limit, metricFilter |-> m]
    ELSE base

\* mutant: hostName is appended only when the caller did not request it
buildGA4Request_dedup(property_id, limit, dates, requested, ga4Filters) ==
    withFilters(
        [property   |-> <<"properties/", property_id>>,
         dateRanges |-> <<[startDate |-> dates.startDate, endDate |-> dates.endDate]>>,
         dimensions |-> IF \E i \in 1..Len(requested.requestedDimensions) :
                                requested.requestedDimensions[i].value = HOST_NAME
                        THEN Names(ObjectValues(requested.requestedDimensions))
                        ELSE Names(ObjectValues(requested.requestedDimensions))
                                \o <<[name |-> HOST_NAME]>>,
         metrics    |-> Names(ObjectValues(requested.requestedMetrics)),
         limit      |-> limit],
        ga4Filters.dimensionFilter, ga4Filters.metricFilter)

\* lines 98-111
buildGA4Request(property_id, limit, dates, requested, ga4Filters) ==
    withFilters(
        [property   |-> <<"properties/", property_id>>,
         dateRanges |-> <<[startDate |-> dates.startDate, endDate |-> dates.endDate]>>,
         dimensions |-> Names(ObjectValues(requested.requestedDimensions))
                            \o <<[name |-> HOST_NAME]>>,
         metrics    |-> Names(ObjectValues(requested.requestedMetrics)),
         limit      |-> limit],
        ga4Filters.dimensionFilter, ga4Filters.metricFilter)

NoLocals == [requestedDimensions |-> <<>>, requestedMetrics |-> <<>>,
             dates |-> UNDEFINED, filterParseResult |-> UNDEFINED,
             ga4Filters |-> UNDEFINED]

\* lines 66 and 88
translatePredicate(b, domain, filterParseResult) ==
    [filterParseResult |-> filterParseResult,
     ga4Filters |-> buildGA4Filters(b, filterParseResult, hostDimensionFilter(domain))]

\* lines 61-111 as control flow: the date conversion throws first, then the
\* filter errors, else the request is assembled
assemble(property_id, limit, requested, dates, translated) ==
    IF dates.threw
    THEN [threw |-> TRUE, error |-> dates.error, message |-> dates.message,
          local |-> [NoLocals EXCEPT !.requestedDimensions = requested.requestedDimensions,
                                     !.requestedMetrics = requested.requestedMetrics]]
    ELSE IF filtersFailed(translated.ga4Filters)
    THEN [threw |-> TRUE, error |-> "UnprocessableContent",
          message |-> "Resolving filters failed",
          local |-> [requestedDimensions |-> requested.requestedDimensions,
                     requestedMetrics |-> requested.requestedMetrics,
                     dates |-> dates,
                     filterParseResult |-> translated.filterParseResult,
                     ga4Filters |-> translated.ga4Filters]]
    ELSE [threw |-> FALSE,
          local |-> [requestedDimensions |-> requested.requestedDimensions,
                     requestedMetrics |-> requested.requestedMetrics,
                     dates |-> dates,
                     filterParseResult |-> translated.filterParseResult,
                     ga4Filters |-> translated.ga4Filters],
          ga4Request |-> buildGA4Request(property_id, limit, dates, requested,
                                         translated.ga4Filters)]

\* lines 30-111: everything runQuery does before it awaits client.runReport
runQueryUntilAwait(b, property_id, domain, req) ==
    assemble(property_id,
             OrElse(req.query.limit, JsNumber(DEFAULT_LIMIT)).v,
             collectRequested(OrElse(req.query.fields, JsObject(<<>>)).entries,
                              [requestedDimensions |-> <<>>, requestedMetrics |-> <<>>]),
             resolveDateRange(req.arguments),
             translatePredicate(b, domain, parsePredicateFilters(b, req.query.predicate)))

-----------------------------------------------------------------------------
(* query.ts: runQuery after client.runReport resolved *)

\* row.dimensionValues?.length || 0
LengthOrZero(values) == IF values = UNDEFINED THEN 0 ELSE Len(values.items)

\* mutant: validation stops at the first offending row
RECURSIVE validateRows_firstOnly(_, _, _, _, _)
validateRows_firstOnly(rows, index, expectedDimensions, expectedMetrics, errors) ==
    IF index >= Len(rows) \/ Len(errors) > 0 THEN errors
    ELSE LET row == rows[index + 1]
             actualDimensions == LengthOrZero(row.dimensionValues)
             actualMetrics    == LengthOrZero(row.metricValues)
             e1 == IF actualDimensions < expectedDimensions
                   THEN Append(errors, [row |-> index, missing |-> "dimensions",
                                        expected |-> expectedDimensions,
                                        got |-> actualDimensions])
                   ELSE errors
             e2 == IF actualMetrics < expectedMetrics
                   THEN Append(e1, [row |-> index, missing |-> "metrics",
                                    expected |-> expectedMetrics, got |-> actualMetrics])
                   ELSE e1
         IN  validateRows_firstOnly(rows, index + 1, expectedDimensions, expectedMetrics, e2)

\* lines 144-159: the forEach over response.rows; index is 0-based
RECURSIVE validateRows(_, _, _, _, _)
validateRows(rows, index, expectedDimensions, expectedMetrics, errors) ==
    IF index >= Len(rows) THEN errors
    ELSE LET row == rows[index + 1]
             actualDimensions == LengthOrZero(row.dimensionValues)
             actualMetrics    == LengthOrZero(row.metricValues)
             e1 == IF actualDimensions < expectedDimensions
                   THEN Append(errors, [row |-> index, missing |-> "dimensions",
                                        expected |-> expectedDimensions,
                                        got |-> actualDimensions])
                   ELSE errors
             e2 == IF actualMetrics < expectedMetrics
                   THEN Append(e1, [row |-> index, missing |-> "metrics",
                                    expected |-> expectedMetrics, got |-> actualMetrics])
                   ELSE e1
         IN  validateRows(rows, index + 1, expectedDimensions, expectedMetrics, e2)

\* values?.[index]?.value || null, index 0-based
ValueAt(values, index) ==
    IF values = UNDEFINED \/ index >= Len(values.items) THEN NULL
    ELSE OrElse(values.items[index + 1].value, NULL)

\* lines 173-175 and 178-180: result[fieldName] = values?.[index]?.value || null
RECURSIVE projectValues(_, _, _, _)
projectValues(fieldNames, index, values, result) ==
    IF index >= Len(fieldNames) THEN result
    ELSE projectValues(fieldNames, index + 1, values,
                       ObjSet(result, fieldNames[index + 1], ValueAt(values, index)))

\* lines 169-183: one output row
mapRow(row, requestedDimensions, requestedMetrics) ==
    projectValues(ObjectKeys(requestedMetrics), 0, row.metricValues,
        projectValues(ObjectKeys(requestedDimensions), 0, row.dimensionValues, <<>>))

\* mutant: an empty rows array is not treated as missing
noRows_undefinedOnly(resp) == resp.rows = UNDEFINED

\* line 129
noRows(resp) == resp.rows = UNDEFINED \/ Len(resp.rows.items) = 0

\* mutant: rows short of values are skipped and the others returned
runQueryAfterAwait_skipsShortRows(loc, resp) ==
    LET expectedDimensions == Len(ObjectKeys(loc.requestedDimensions))
        expectedMetrics    == Len(ObjectKeys(loc.requestedMetrics))
        complete(row) == validateRows(<<row>>, 0, expectedDimensions, expectedMetrics, <<>>) = <<>>
    IN  IF noRows(resp)
        THEN [threw |-> TRUE, error |-> "UnprocessableContent",
              message |-> "No data available for the requested dimension/metric combination",
              details |-> [requested_dimensions |-> ObjectValues(loc.requestedDimensions),
                           requested_metrics |-> ObjectValues(loc.requestedMetrics)]]
        ELSE LET rows == SelectSeq(resp.rows.items, complete)
             IN  IF rows = <<>>
                 THEN [threw |-> TRUE, error |-> "UnprocessableContent",
                       message |-> "GA4 response validation failed", errors |-> <<>>]
                 ELSE [threw |-> FALSE,
                       rows |-> [r \in 1..Len(rows) |->
                                    mapRow(rows[r], loc.requestedDimensions,
                                           loc.requestedMetrics)]]

\* lines 123-186
runQueryAfterAwait(loc, resp) ==
    LET expectedDimensions == Len(ObjectKeys(loc.requestedDimensions))
        expectedMetrics    == Len(ObjectKeys(loc.requestedMetrics))
    IN  IF noRows(resp)
        THEN [threw |-> TRUE, error |-> "UnprocessableContent",
              message |-> "No data available for the requested dimension/metric combination",
              details |-> [requested_dimensions |-> ObjectValues(loc.requestedDimensions),
                           requested_metrics |-> ObjectValues(loc.requestedMetrics)]]
        ELSE LET rows   == resp.rows.items
                 errors == validateRows(rows, 0, expectedDimensions, expectedMetrics, <<>>)
             IN  IF Len(errors) > 0
                 THEN [threw |-> TRUE, error |-> "UnprocessableContent",
                       message |-> "GA4 response validation failed", errors |-> errors]
                 ELSE [threw |-> FALSE,
                       rows |-> [r \in 1..Len(rows) |->
                                    mapRow(rows[r], loc.requestedDimensions,
                                           loc.requestedMetrics)]]

\* lines 117-120
badGateway == [threw |-> TRUE, error |-> "BadGateway", message |-> "GA4 API call failed"]

-----------------------------------------------------------------------------
(* Inputs: sequences of bounded length *)

SeqsUpTo(S, n) == UNION {[1..k -> S] : k \in 0..n}

\* sequences without repeated keys
DistinctKeys(entries) ==
    \A i, j \in 1..Len(entries) : entries[i].key = entries[j].key => i = j

-----------------------------------------------------------------------------
(* Inputs: predicates *)

DimensionCountry == <<"dimension_", "country">>
DimensionHost    == <<"dimension_", "hostName">>
MetricSessions   == <<"metric_", "sessions">>
PlainCountry     == <<"country">>

Operators == {"_eq", "_gt", "_lt", "_like", "_neq"}

Targets ==
    {[type |-> "column", name |-> n] : n \in {DimensionCountry, MetricSessions, PlainCountry}}
    \cup {[type |-> "root_collection_column", name |-> DimensionCountry],
          [type |-> "aggregate"]}

Scalars == {JsString("US"), JsString("100"), JsNumber(100), NULL,
            JsString(""), JsBoolean(TRUE)}

ComparisonValues ==
    {[type |-> "scalar", value |-> v] : v \in Scalars}
    \cup {[type |-> "variable", name |-> "v"],
          [type |-> "column", column |-> [type |-> "column", name |-> DimensionCountry]]}

Comparison(column, operator, value) ==
    [type |-> "binary_comparison_operator", column |-> column,
     operator |-> operator, value |-> value]

Column(name) == [type |-> "column", name |-> name]
Scalar(v)    == [type |-> "scalar", value |-> v]

BinaryComparisons ==
    {Comparison(c, o, v) : c \in Targets, o \in Operators, v \in ComparisonValues}

And(expressions) == [type |-> "and", expressions |-> expressions]
Or(expressions)  == [type |-> "or", expressions |-> expressions]

CountryEqUS     == Comparison(Column(DimensionCountry), "_eq", Scalar(JsString("US")))
CountryLikeUS   == Comparison(Column(DimensionCountry), "_like", Scalar(JsString("US")))
CountryGtUS     == Comparison(Column(DimensionCountry), "_gt", Scalar(JsString("US")))
CountryEq100    == Comparison(Column(DimensionCountry), "_eq", Scalar(JsNumber(100)))
HostEqUS        == Comparison(Column(DimensionHost), "_eq", Scalar(JsString("US")))
SessionsGt100   == Comparison(Column(MetricSessions), "_gt", Scalar(JsNumber(100)))
SessionsEq100   == Comparison(Column(MetricSessions), "_eq", Scalar(JsString("100")))
SessionsEqUS    == Comparison(Column(MetricSessions), "_eq", Scalar(JsString("US")))
SessionsLike100 == Comparison(Column(MetricSessions), "_like", Scalar(JsString("100")))
PlainEqUS       == Comparison(Column(PlainCountry), "_eq", Scalar(JsString("US")))

Unsupported ==
    {[type |-> "not", expression |-> CountryEqUS],
     [type |-> "exists", predicate |-> CountryEqUS],
     [type |-> "unary_comparison_operator", operator |-> "is_null",
      column |-> Column(DimensionCountry)],
     [type |-> "between"]}

\* the children an and/or node of the model may have
Children ==
    {CountryEqUS, CountryLikeUS, CountryGtUS, CountryEq100, HostEqUS,
     SessionsGt100, SessionsEq100, SessionsEqUS, PlainEqUS,
     [type |-> "not", expression |-> CountryEqUS],
     And(<<CountryEqUS, SessionsEq100>>), Or(<<CountryEqUS>>)}

Groups == {And(c) : c \in SeqsUpTo(Children, MaxChildren)}
          \cup {Or(c) : c \in SeqsUpTo(Children, MaxChildren)}

Predicates == {NULL, UNDEFINED} \cup BinaryComparisons \cup Unsupported \cup Groups

FewPredicates == {NULL, CountryGtUS, SessionsGt100, And(<<CountryEqUS, SessionsEq100>>)}

-----------------------------------------------------------------------------
(* Inputs: field selections *)

FieldNames == {"a", "b", "0", "1"}

FieldDefs ==
    {[type |-> "column", column |-> c] :
        c \in {DimensionCountry, DimensionHost, MetricSessions, PlainCountry}}
    \cup {[type |-> "relationship"]}

\* the field map as JSON.parse builds it from the request body
FieldSelections ==
    {JsObject(ObjFromEntries(e)) :
        e \in {x \in SeqsUpTo([key : FieldNames, value : FieldDefs], MaxFields) :
                  DistinctKeys(x)}}

FewFieldSelections ==
    {JsObject(<<[key |-> "a", value |-> [type |-> "column", column |-> DimensionCountry]],
                [key |-> "b", value |-> [type |-> "column", column |-> MetricSessions]]>>),
     UNDEFINED}

-----------------------------------------------------------------------------
(* Inputs: arguments *)

Y2024 == <<"2", "0", "2", "4">>
Jan   == <<"0", "1">>
Dec   == <<"1", "2">>
D05   == <<"0", "5">>
D31   == <<"3", "1">>

GoodDates == {JsString(Iso(Y2024, Jan, D05)), JsString(Us(Y2024, <<"1">>, <<"5">>)),
              JsString(IsoT(Y2024, Dec, D31, <<"1", "0", ":", "3", "0", ":", "0", "0">>))}
BadDates  == {JsString(Y2024 \o <<"/">> \o Jan \o <<"/">> \o D05), JsString(<<>>), UNDEFINED}

\* (snake_case, camelCase) pairs for one end of the range
KeyPairs ==
    {<<d, UNDEFINED>> : d \in GoodDates \cup BadDates}
    \cup {<<UNDEFINED, d>> : d \in GoodDates \cup BadDates}
    \cup {<<JsString(Iso(Y2024, Jan, D05)), JsString(Iso(Y2024, Dec, D31))>>,
          <<JsString(<<>>), JsString(Iso(Y2024, Dec, D31))>>,
          <<JsString(Y2024 \o <<"/">> \o Jan \o <<"/">> \o D05), JsString(Iso(Y2024, Dec, D31))>>}

LiteralDateRange(s, e) ==
    [type |-> "literal",
     value |-> [start_date |-> s[1], startDate |-> s[2], end_date |-> e[1], endDate |-> e[2]]]

NoArguments == [dateRange |-> UNDEFINED]

Arguments ==
    {NoArguments, [dateRange |-> [type |-> "variable", name |-> "range"]]}
    \cup {[dateRange |-> LiteralDateRange(s, e)] : s \in KeyPairs, e \in KeyPairs}
    \cup {[dateRange |-> [type |-> "literal", value |-> NULL]]}

FewArguments ==
    {NoArguments,
     [dateRange |-> LiteralDateRange(<<JsString(<<>>), UNDEFINED>>,
                                     <<JsString(Iso(Y2024, Dec, D31)), UNDEFINED>>)]}

Limits == {UNDEFINED, JsNumber(0), JsNumber(5)}

-----------------------------------------------------------------------------
(* Inputs: requests and responses *)

QueryRequest(fields, limit, args, predicate) ==
    [query |-> [fields |-> fields, limit |-> limit, predicate |-> predicate],
     arguments |-> args]

Requests ==
    {QueryRequest(f, UNDEFINED, a, p) :
        f \in FieldSelections, a \in {NoArguments}, p \in FewPredicates}
    \cup {QueryRequest(f, UNDEFINED, a, p) :
        f \in FewFieldSelections, a \in Arguments, p \in FewPredicates}
    \cup {QueryRequest(f, UNDEFINED, a, p) :
        f \in FewFieldSelections, a \in FewArguments, p \in Predicates}
    \cup {QueryRequest(f, l, NoArguments, NULL) : f \in FewFieldSelections, l \in Limits}

\* the value at position i (0-based) of row r
DimensionValue(r, i) == [value |-> JsString(<<"d", r, i>>)]
MetricValue(r, i)    == [value |-> JsString(<<"m", r, i>>)]

Row(r, nd, nm) ==
    [dimensionValues |-> JsArray([i \in 1..nd |-> DimensionValue(r, i - 1)]),
     metricValues    |-> JsArray([i \in 1..nm |-> MetricValue(r, i - 1)])]

\* value counts of one row: short of, equal to, or (with the injected
\* hostName column) one more than the requested dimensions; short of or
\* equal to the requested metrics
RowShapes(expectedDimensions, expectedMetrics) ==
    {<<nd, nm>> \in (0..(expectedDimensions + 1)) \X (0..expectedMetrics) :
        nd >= expectedDimensions - 1 /\ nm >= expectedMetrics - 1}

\* the first value of the list replaced by v
WithFirst(values, v) ==
    IF values.items = <<>> THEN values
    ELSE JsArray([values.items EXCEPT ![1] = v])

\* a row whose first dimension value is the empty string and whose first
\* metric value carries no value
Blanked(row) ==
    [dimensionValues |-> WithFirst(row.dimensionValues, [value |-> JsString(<<>>)]),
     metricValues    |-> WithFirst(row.metricValues, [value |-> UNDEFINED])]

\* the first row of the list blanked
BlankedFirst(rows) == IF rows = <<>> THEN rows ELSE [rows EXCEPT ![1] = Blanked(@)]

ShapedRows(sh) == [r \in 1..Len(sh) |-> Row(r - 1, sh[r][1], sh[r][2])]

Responses(loc) ==
    LET shapes == RowShapes(Len(loc.requestedDimensions), Len(loc.requestedMetrics))
    IN  {[rows |-> UNDEFINED]}
        \cup {[rows |-> JsArray(ShapedRows(sh))] : sh \in SeqsUpTo(shapes, MaxRows)}
        \cup {[rows |-> JsArray(BlankedFirst(ShapedRows(sh)))] :
                sh \in SeqsUpTo(shapes, MaxRows)}

-----------------------------------------------------------------------------
(* The connector serving queries *)

Queries == {"q1"}

Idle == [threw |-> FALSE, pending |-> TRUE]

Init ==
    /\ build \in Builds
    /\ pc = [q \in Queries |-> "idle"]
    /\ request = [q \in Queries |-> UNDEFINED]
    /\ local = [q \in Queries |-> NoLocals]
    /\ sent = [q \in Queries |-> <<>>]
    /\ response = [q \in Queries |-> UNDEFINED]
    /\ outcome = [q \in Queries |-> Idle]
    /\ dpc = "unused" /\ dIn = UNDEFINED /\ dOut = <<>>
    /\ bpc = "unused" /\ bIn = UNDEFINED /\ bOut = UNDEFINED

\* mutant: the locals live in one structure shared by all queries in flight
Suspend_sharedLocals(q, r) ==
    /\ local' = [p \in DOMAIN local |-> r.local]
    /\ IF r.threw
       THEN /\ pc' = [pc EXCEPT ![q] = "done"]
            /\ outcome' = [outcome EXCEPT ![q] =
                  [threw |-> TRUE, error |-> r.error, message |-> r.message]]
            /\ sent' = sent
       ELSE /\ pc' = [pc EXCEPT ![q] = "awaiting"]
            /\ sent' = [sent EXCEPT ![q] = Append(@, r.ga4Request)]
            /\ outcome' = outcome

\* runQuery either throws before the outbound call or hands its request to
\* client.runReport and suspends
Suspend(q, r) ==
    /\ local' = [local EXCEPT ![q] = r.local]
    /\ IF r.threw
       THEN /\ pc' = [pc EXCEPT ![q] = "done"]
            /\ outcome' = [outcome EXCEPT ![q] =
                  [threw |-> TRUE, error |-> r.error, message |-> r.message]]
            /\ sent' = sent
       ELSE /\ pc' = [pc EXCEPT ![q] = "awaiting"]
            /\ sent' = [sent EXCEPT ![q] = Append(@, r.ga4Request)]
            /\ outcome' = outcome

\* GA4Connector.query -> runQuery, up to the await
Call(q) ==
    /\ pc[q] = "idle"
    /\ \E req \in Requests :
          /\ request' = [request EXCEPT ![q] = req]
          /\ Suspend(q, runQueryUntilAwait(build, PropertyId, Domain, req))
    /\ UNCHANGED <<build, response, dvars, bvars>>

\* client.runReport resolves
ReportResolves(q) ==
    /\ pc[q] = "awaiting"
    /\ \E resp \in Responses(local[q]) :
          /\ response' = [response EXCEPT ![q] = resp]
          /\ outcome' = [outcome EXCEPT ![q] = runQueryAfterAwait(local[q], resp)]
    /\ pc' = [pc EXCEPT ![q] = "done"]
    /\ UNCHANGED <<build, request, local, sent, dvars, bvars>>

\* mutant: a rejected call is issued once more
ReportRejects_retry(q) ==
    /\ pc[q] = "awaiting"
    /\ IF Len(sent[q]) < 2
       THEN /\ sent' = [sent EXCEPT ![q] = Append(@, @[1])]
            /\ UNCHANGED <<pc, outcome>>
       ELSE /\ outcome' = [outcome EXCEPT ![q] = badGateway]
            /\ pc' = [pc EXCEPT ![q] = "done"]
            /\ sent' = sent
    /\ UNCHANGED <<build, request, local, response, dvars, bvars>>

\* client.runReport rejects
ReportRejects(q) ==
    /\ pc[q] = "awaiting"
    /\ outcome' = [outcome EXCEPT ![q] = badGateway]
    /\ pc' = [pc EXCEPT ![q] = "done"]
    /\ UNCHANGED <<build, request, local, sent, response, dvars, bvars>>

Next == \E q \in Queries : Call(q) \/ ReportResolves(q) \/ ReportRejects(q)

Spec == Init /\ [][Next]_vars

\* Queries in flight at the same time
Concurrent == {"q1", "q2"}

ConcurrentRequests ==
    {QueryRequest(JsObject(<<[key |-> "a", value |-> [type |-> "column", column |-> DimensionCountry]],
                             [key |-> "b", value |-> [type |-> "column", column |-> MetricSessions]]>>),
                  UNDEFINED, NoArguments, NULL),
     QueryRequest(JsObject(<<[key |-> "m", value |-> [type |-> "column", column |-> MetricSessions]]>>),
                  JsNumber(5),
                  [dateRange |-> LiteralDateRange(<<JsString(Iso(Y2024, Jan, D05)), UNDEFINED>>,
                                                  <<UNDEFINED, JsString(Iso(Y2024, Dec, D31))>>)],
                  CountryEqUS),
     QueryRequest(JsObject(<<[key |-> "a", value |-> [type |-> "column", column |-> DimensionHost]]>>),
                  UNDEFINED, NoArguments, CountryGtUS),
     QueryRequest(UNDEFINED, UNDEFINED,
                  [dateRange |-> LiteralDateRange(<<JsString(<<>>), UNDEFINED>>,
                                                  <<JsString(Iso(Y2024, Dec, D31)), UNDEFINED>>)],
                  NULL)}

ConcurrentInit ==
    /\ build \in Builds
    /\ pc = [q \in Concurrent |-> "idle"]
    /\ request = [q \in Concurrent |-> UNDEFINED]
    /\ local = [q \in Concurrent |-> NoLocals]
    /\ sent = [q \in Concurrent |-> <<>>]
    /\ response = [q \in Concurrent |-> UNDEFINED]
    /\ outcome = [q \in Concurrent |-> Idle]
    /\ dpc = "unused" /\ dIn = UNDEFINED /\ dOut = <<>>
    /\ bpc = "unused" /\ bIn = UNDEFINED /\ bOut = UNDEFINED

\* GA4Connector.query -> runQuery, up to the await, while other queries are
\* in flight
ConcurrentCall(q) ==
    /\ pc[q] = "idle"
    /\ \E req \in ConcurrentRequests :
          /\ request' = [request EXCEPT ![q] = req]
          /\ Suspend(q, runQueryUntilAwait(build, PropertyId, Domain, req))
    /\ UNCHANGED <<build, response, dvars, bvars>>

ConcurrentNext ==
    \E q \in Concurrent : ConcurrentCall(q) \/ ReportResolves(q) \/ ReportRejects(q)

ConcurrentSpec == ConcurrentInit /\ [][ConcurrentNext]_vars

\* The existing dimension filters buildGA4Filters may be given: none, a single
\* leaf, an AND-group
ExistingFilters ==
    {UNDEFINED,
     hostDimensionFilter(Domain),
     [andGroup |-> [expressions |->
        <<hostDimensionFilter(Domain),
          [filter |-> [fieldName |-> <<"deviceCategory">>,
                       stringFilter |-> [value |-> "desktop", matchType |-> "EXACT"]]]>>]]}

BuilderInit ==
    /\ build \in Builds
    /\ bpc = "start"
    /\ bIn \in [parseResult : {parsePredicateFilters(build, p) : p \in Predicates},
                existing : ExistingFilters]
    /\ bOut = UNDEFINED
    /\ pc = [q \in Queries |-> "idle"]
    /\ request = [q \in Queries |-> UNDEFINED]
    /\ local = [q \in Queries |-> NoLocals]
    /\ sent = [q \in Queries |-> <<>>]
    /\ response = [q \in Queries |-> UNDEFINED]
    /\ outcome = [q \in Queries |-> Idle]
    /\ dpc = "unused" /\ dIn = UNDEFINED /\ dOut = <<>>

\* buildGA4Filters(parseResult, existingDimensionFilter) called on its own
BuildFilters ==
    /\ bpc = "start"
    /\ bOut' = buildGA4Filters(build, bIn.parseResult, bIn.existing)
    /\ bpc' = "built"
    /\ UNCHANGED <<bIn, build, qvars, dvars>>

BuilderNext == BuildFilters

BuilderSpec == BuilderInit /\ [][BuilderNext]_vars

DateInit ==
    /\ dIn \in DateInputs /\ dpc = "start" /\ dOut = <<>>
    /\ bpc = "unused" /\ bIn = UNDEFINED /\ bOut = UNDEFINED
    /\ build \in Builds
    /\ pc = [q \in Queries |-> "idle"]
    /\ request = [q \in Queries |-> UNDEFINED]
    /\ local = [q \in Queries |-> NoLocals]
    /\ sent = [q \in Queries |-> <<>>]
    /\ response = [q \in Queries |-> UNDEFINED]
    /\ outcome = [q \in Queries |-> Idle]

DateNext == DConvert \/ DConvertAgain

DateSpec == DateInit /\ [][DateNext]_vars

-----------------------------------------------------------------------------
(* What the specification expects, stated without the code's operators *)

\* the locals of q hold the result of the filter builder
Built(q) == local[q].ga4Filters # UNDEFINED

IsComparison(p) == "type" \in DOMAIN p /\ p.type = "binary_comparison_operator"

\* the column kind the naming convention gives a comparison target
KindOf(target) ==
    IF "name" \notin DOMAIN target THEN "none"
    ELSE IF Head(target.name) = "dimension_" THEN "dimension"
    ELSE IF Head(target.name) = "metric_" THEN "metric"
    ELSE "none"

\* the compatibility matrix
Rejected(operator, kind) ==
    \/ kind = "dimension" /\ operator \in {"_gt", "_lt"}
    \/ kind = "metric" /\ operator = "_like"

Allowed(operator, kind) ==
    \/ kind = "dimension" /\ operator \in {"_eq", "_like"}
    \/ kind = "metric" /\ operator \in {"_eq", "_gt", "_lt"}

MandatoryLeaf ==
    [filter |-> [fieldName |-> <<"hostName">>,
                 stringFilter |-> [value |-> Domain, matchType |-> "EXACT"]]]

ContainsMandatoryLeaf(tree) ==
    \/ tree = MandatoryLeaf
    \/ /\ "andGroup" \in DOMAIN tree
       /\ \E i \in 1..Len(tree.andGroup.expressions) :
             tree.andGroup.expressions[i] = MandatoryLeaf

\* parsed filters carrying a string value
RECURSIVE StringValued(_)
StringValued(filters) ==
    IF filters = <<>> THEN <<>>
    ELSE IF Head(filters).value.t = "string"
         THEN <<Head(filters)>> \o StringValued(Tail(filters))
         ELSE StringValued(Tail(filters))

\* the entries of the field selection whose column has the given prefix
RECURSIVE FieldsWithPrefix(_, _)
FieldsWithPrefix(entries, prefix) ==
    IF entries = <<>> THEN <<>>
    ELSE LET e == Head(entries)
             rest == FieldsWithPrefix(Tail(entries), prefix)
         IN  IF e.value.type = "column" /\ Head(e.value.column) = prefix
             THEN <<e>> \o rest ELSE rest

SelectedEntries(q) ==
    IF request[q].query.fields = UNDEFINED THEN <<>> ELSE request[q].query.fields.entries

RequestedDimensionFields(q) == FieldsWithPrefix(SelectedEntries(q), "dimension_")
RequestedMetricFields(q)    == FieldsWithPrefix(SelectedEntries(q), "metric_")

BaseNames(entries) == [i \in 1..Len(entries) |-> Tail(entries[i].value.column)]

-----------------------------------------------------------------------------
(* Claims *)

\* C1: whenever parsing or building left at least one error, the query has
\* failed with UnprocessableContent and nothing was passed to client.runReport.
C1_ErrorsBlockOutboundCall ==
    \A q \in Queries :
        (Built(q) /\ Len(local[q].ga4Filters.errors) > 0)
            => /\ pc[q] = "done"
               /\ outcome[q].threw
               /\ outcome[q].error = "UnprocessableContent"
               /\ sent[q] = <<>>

C1_Witness ==
    \E q \in Queries :
        /\ pc[q] = "done"
        /\ request[q].query.predicate = CountryGtUS
        /\ Len(local[q].ga4Filters.errors) > 0
        /\ outcome[q].threw /\ sent[q] = <<>>

\* C2: with the mandatory hostName leaf and k converted dimension filters the
\* builder returns the mandatory leaf alone (k = 0) or an AND-group of the
\* mandatory leaf followed by the k derived leaves in predicate order
\* (k >= 1); every request sent upstream carries a dimension filter that
\* contains the mandatory leaf.
C2_MandatoryLeafCombination ==
    \A q \in Queries :
        /\ Built(q) =>
              LET derived == StringValued(local[q].filterParseResult.dimensionFilters)
                  k       == Len(derived)
                  tree    == local[q].ga4Filters.dimensionFilter
              IN  IF k = 0 THEN tree = MandatoryLeaf
                  ELSE /\ DOMAIN tree = {"andGroup"}
                       /\ Len(tree.andGroup.expressions) = k + 1
                       /\ tree.andGroup.expressions[1] = MandatoryLeaf
                       /\ \A i \in 1..k :
                             LET leaf == tree.andGroup.expressions[i + 1].filter
                             IN  /\ leaf.fieldName = Tail(derived[i].columnName)
                                 /\ leaf.stringFilter.value = derived[i].value.v
        /\ \A i \in 1..Len(sent[q]) :
              /\ "dimensionFilter" \in DOMAIN sent[q][i]
              /\ ContainsMandatoryLeaf(sent[q][i].dimensionFilter)

C2_Witness ==
    \E q \in Queries :
        /\ Len(sent[q]) = 1
        /\ request[q].query.predicate = And(<<CountryEqUS, HostEqUS>>)
        /\ Len(sent[q][1].dimensionFilter.andGroup.expressions) = 3

\* C3: a comparison whose (operator, column kind) pair the matrix rejects
\* yields a non-empty error list and leaves no leaf in either filter tree.
C3_RejectedPairsFail ==
    \A q \in Queries :
        LET p == request[q].query.predicate
        IN  (Built(q) /\ IsComparison(p) /\ Rejected(p.operator, KindOf(p.column)))
                => /\ Len(local[q].ga4Filters.errors) > 0
                   /\ local[q].ga4Filters.dimensionFilter = MandatoryLeaf
                   /\ local[q].ga4Filters.metricFilter = UNDEFINED

C3_Witness ==
    \E q \in Queries :
        /\ Built(q)
        /\ request[q].query.predicate = SessionsLike100
        /\ Len(local[q].ga4Filters.errors) > 0
        /\ local[q].ga4Filters.metricFilter = UNDEFINED

\* C4: a comparison whose (operator, column kind) pair the matrix allows, with
\* a value of the right type, builds without error into one leaf on the
\* prefix-stripped field name: EXACT / PARTIAL_REGEXP on a dimension,
\* EQUAL / GREATER_THAN / LESS_THAN on a metric.
C4_AllowedPairsBuild ==
    \A q \in Queries :
        LET p    == request[q].query.predicate
            kind == KindOf(p.column)
            v    == p.value.value
        IN  (/\ Built(q) /\ IsComparison(p) /\ Allowed(p.operator, kind)
             /\ p.value.type = "scalar"
             /\ v # NULL
             /\ IF kind = "dimension" THEN v.t = "string" ELSE v.t = "number")
                => /\ local[q].ga4Filters.errors = <<>>
                   /\ IF kind = "dimension"
                      THEN /\ local[q].ga4Filters.metricFilter = UNDEFINED
                           /\ local[q].ga4Filters.dimensionFilter =
                                [andGroup |-> [expressions |-> <<MandatoryLeaf,
                                    [filter |-> [fieldName |-> Tail(p.column.name),
                                        stringFilter |->
                                            [value |-> v.v,
                                             matchType |-> IF p.operator = "_eq"
                                                           THEN "EXACT"
                                                           ELSE "PARTIAL_REGEXP"]]]>>]]
                      ELSE /\ local[q].ga4Filters.dimensionFilter = MandatoryLeaf
                           /\ local[q].ga4Filters.metricFilter =
                                [filter |-> [fieldName |-> Tail(p.column.name),
                                    numericFilter |->
                                        [operation |->
                                            CASE p.operator = "_eq" -> "EQUAL"
                                              [] p.operator = "_gt" -> "GREATER_THAN"
                                              [] p.operator = "_lt" -> "LESS_THAN",
                                         value |-> [doubleValue |-> v.v]]]]

\* C5: on the three supported formats convertDateFormat is idempotent, and
\* every spelling of one calendar date converts to that date's YYYY-MM-DD string.
C5_DateNormalisation ==
    /\ dpc # "threw again"
    /\ dpc = "twice" => dOut[2] = dOut[1]
    /\ \A y \in Years, m \in Months, d \in Days :
          (dIn \in {JsString(s) : s \in Spellings(y, m, d)} /\ dpc # "start")
              => /\ dpc \in {"once", "twice"}
                 /\ dOut[1] = JsString(y \o <<"-">> \o m \o <<"-">> \o d)

C5_Witness ==
    /\ dpc = "twice"
    /\ dIn = JsString(<<"1", "/", "5", "/", "2", "0", "2", "4">>)
    /\ dOut[2] = JsString(<<"2", "0", "2", "4", "-", "0", "1", "-", "0", "5">>)

\* the start (end) value of a literal dateRange: the snake_case key if it
\* holds a non-empty value, else the camelCase key
StartOf(range) == IF range.value.start_date \notin {UNDEFINED, JsString(<<>>)}
                  THEN range.value.start_date ELSE range.value.startDate
EndOf(range)   == IF range.value.end_date \notin {UNDEFINED, JsString(<<>>)}
                  THEN range.value.end_date ELSE range.value.endDate

Supported(x) == x \in {JsString(s) : s \in SupportedDates}

IsLiteralRange(q) ==
    /\ request[q].arguments.dateRange # UNDEFINED
    /\ request[q].arguments.dateRange.type = "literal"

IsIsoDate(x) ==
    /\ x # UNDEFINED /\ x.t = "string" /\ Len(x.v) = 10
    /\ \A i \in {1, 2, 3, 4, 6, 7, 9, 10} : x.v[i] \in Digits
    /\ x.v[5] = "-" /\ x.v[8] = "-"

\* C6: a literal dateRange (its value an object) whose start or end is not in a supported format
\* makes the query fail with the unsupported-date-format error before any
\* outbound call; no request with a partially resolved range is ever sent.
C6_UnsupportedDateFails ==
    \A q \in Queries :
        /\ (pc[q] # "idle" /\ IsLiteralRange(q)
             /\ request[q].arguments.dateRange.value # NULL
             /\ (~Supported(StartOf(request[q].arguments.dateRange))
                    \/ ~Supported(EndOf(request[q].arguments.dateRange))))
                => /\ pc[q] = "done"
                   /\ outcome[q].threw
                   /\ outcome[q].error = "UnprocessableContent"
                   /\ outcome[q].message = "Unsupported date format"
                   /\ sent[q] = <<>>
        /\ \A i \in 1..Len(sent[q]) :
              LET range == sent[q][i].dateRanges[1]
              IN  IF IsLiteralRange(q)
                  THEN IsIsoDate(range.startDate) /\ IsIsoDate(range.endDate)
                  ELSE ~IsIsoDate(range.startDate) /\ ~IsIsoDate(range.endDate)

C6_Witness ==
    \E q \in Queries :
        /\ pc[q] = "done" /\ IsLiteralRange(q)
        /\ request[q].arguments.dateRange.value # NULL
        /\ Supported(StartOf(request[q].arguments.dateRange))
        /\ ~Supported(EndOf(request[q].arguments.dateRange))
        /\ outcome[q].threw /\ outcome[q].message = "Unsupported date format"
        /\ sent[q] = <<>>

\* C7: without a dateRange argument the outbound request has the single date
\* range start "7daysAgo", end "today".
C7_DefaultDateRange ==
    \A q \in Queries :
        \A i \in 1..Len(sent[q]) :
            request[q].arguments.dateRange = UNDEFINED
                => sent[q][i].dateRanges =
                     <<[startDate |-> JsString(<<"7", "d", "a", "y", "s", "A", "g", "o">>),
                        endDate |-> JsString(<<"t", "o", "d", "a", "y">>)]>>

C7_Witness ==
    \E q \in Queries :
        /\ Len(sent[q]) = 1
        /\ request[q].arguments.dateRange = UNDEFINED
        /\ sent[q][1].dateRanges[1].endDate = JsString(<<"t", "o", "d", "a", "y">>)

\* C8: the outbound dimension list is the prefix-stripped names of the
\* requested dimension_ fields in field-selection order followed by hostName;
\* the metric list is the prefix-stripped names of the requested metric_ fields.
C8_RequestedNames ==
    \A q \in Queries :
        \A i \in 1..Len(sent[q]) :
            LET dims == BaseNames(RequestedDimensionFields(q))
                mets == BaseNames(RequestedMetricFields(q))
            IN  /\ sent[q][i].dimensions =
                     [j \in 1..(Len(dims) + 1) |->
                        [name |-> IF j <= Len(dims) THEN dims[j] ELSE <<"hostName">>]]
                /\ sent[q][i].metrics = [j \in 1..Len(mets) |-> [name |-> mets[j]]]

C8_Witness ==
    \E q \in Queries :
        /\ Len(sent[q]) = 1
        /\ request[q].query.fields =
              JsObject(<<[key |-> "a", value |-> [type |-> "column", column |-> DimensionCountry]],
                         [key |-> "b", value |-> [type |-> "column", column |-> MetricSessions]]>>)
        /\ sent[q][1].dimensions = <<[name |-> <<"country">>], [name |-> <<"hostName">>]>>
        /\ sent[q][1].metrics = <<[name |-> <<"sessions">>]>>

Resolved(q) == pc[q] = "done" /\ response[q] # UNDEFINED

HasNoRows(q) == response[q].rows = UNDEFINED \/ response[q].rows.items = <<>>

\* C9: a response without rows makes the query fail with UnprocessableContent
\* whose payload lists the requested dimension and metric names; an empty
\* row set is never returned as success.
C9_NoRowsFails ==
    \A q \in Queries :
        /\ (Resolved(q) /\ HasNoRows(q))
              => /\ outcome[q].threw
                 /\ outcome[q].error = "UnprocessableContent"
                 /\ outcome[q].details.requested_dimensions =
                        BaseNames(RequestedDimensionFields(q))
                 /\ outcome[q].details.requested_metrics =
                        BaseNames(RequestedMetricFields(q))
        /\ (pc[q] = "done" /\ ~outcome[q].threw) => Len(outcome[q].rows) > 0

C9_Witness ==
    \E q \in Queries :
        /\ Resolved(q)
        /\ response[q].rows = JsArray(<<>>)
        /\ outcome[q].threw
        /\ outcome[q].details.requested_dimensions = <<<<"country">>>>

\* the number of values a row carries for one kind
Count(values) == IF values = UNDEFINED THEN 0 ELSE Len(values.items)

\* the (0-based row index, kind) pairs with fewer values than requested
Shortfalls(q) ==
    LET rows == response[q].rows.items
    IN  {<<r, "dimensions">> : r \in {x \in 0..(Len(rows) - 1) :
            Count(rows[x + 1].dimensionValues) < Len(RequestedDimensionFields(q))}}
        \cup {<<r, "metrics">> : r \in {x \in 0..(Len(rows) - 1) :
            Count(rows[x + 1].metricValues) < Len(RequestedMetricFields(q))}}

\* C10: validation inspects every row: the arity errors reported are exactly
\* one per (row index, kind) pair with a shortfall, each citing its row index.
C10_EveryShortfallReported ==
    \A q \in Queries :
        (Resolved(q) /\ ~HasNoRows(q) /\ Shortfalls(q) # {})
            => /\ outcome[q].threw
               /\ outcome[q].message = "GA4 response validation failed"
               /\ Len(outcome[q].errors) = Cardinality(Shortfalls(q))
               /\ {<<outcome[q].errors[i].row, outcome[q].errors[i].missing>> :
                        i \in 1..Len(outcome[q].errors)} = Shortfalls(q)

C10_Witness ==
    \E q \in Queries :
        /\ Resolved(q) /\ ~HasNoRows(q) /\ outcome[q].threw
        /\ Len(RequestedDimensionFields(q)) = 2
        /\ Len(response[q].rows.items) = 2
        /\ Count(response[q].rows.items[1].dimensionValues) = 2
        /\ Count(response[q].rows.items[2].dimensionValues) = 1
        /\ Len(outcome[q].errors) = 1
        /\ outcome[q].errors[1].row = 1

\* the keys of an output row
RowKeys(row) == {row[i].key : i \in 1..Len(row)}

\* the output field names of the requested dimension_ and metric_ fields
RequestedFieldNames(q) ==
    {RequestedDimensionFields(q)[i].key : i \in 1..Len(RequestedDimensionFields(q))}
    \cup {RequestedMetricFields(q)[i].key : i \in 1..Len(RequestedMetricFields(q))}

\* the values a response row carries
CarriedValues(row) ==
    (IF row.dimensionValues = UNDEFINED THEN {}
     ELSE {row.dimensionValues.items[i].value : i \in 1..Len(row.dimensionValues.items)})
    \cup (IF row.metricValues = UNDEFINED THEN {}
          ELSE {row.metricValues.items[i].value : i \in 1..Len(row.metricValues.items)})

\* C11: no partial row set: a response with an arity shortfall in any row makes
\* the query fail with UnprocessableContent and no rows; otherwise there is
\* exactly one output row per response row, in response order, each keyed by
\* exactly the output field names of the requested dimension_ and metric_ fields.
C11_NoPartialRowSet ==
    \A q \in Queries :
        (Resolved(q) /\ ~HasNoRows(q))
            => IF Shortfalls(q) # {}
               THEN /\ outcome[q].threw
                    /\ outcome[q].error = "UnprocessableContent"
                    /\ "rows" \notin DOMAIN outcome[q]
               ELSE /\ ~outcome[q].threw
                    /\ Len(outcome[q].rows) = Len(response[q].rows.items)
                    /\ \A r \in 1..Len(outcome[q].rows) :
                          LET out == outcome[q].rows[r]
                          IN  /\ RowKeys(out) = RequestedFieldNames(q)
                              /\ Len(out) = Cardinality(RequestedFieldNames(q))
                              /\ \A i \in 1..Len(out) :
                                    out[i].value \in
                                        CarriedValues(response[q].rows.items[r]) \cup {NULL}

C11_Witness ==
    \E q \in Queries :
        /\ Resolved(q) /\ ~HasNoRows(q) /\ ~outcome[q].threw
        /\ Len(response[q].rows.items) = 2
        /\ Len(outcome[q].rows) = 2
        /\ RowKeys(outcome[q].rows[2]) = {"a", "b"}
        /\ outcome[q].rows[2][1].value = JsString(<<"d", 1, 0>>)

\* the value the output row holds under a field name
ValueUnder(out, fieldName) ==
    LET i == CHOOSE i \in 1..Len(out) : out[i].key = fieldName IN out[i].value

\* a response value as the row set shows it: a value the response lacks is null
Shown(v) == IF v = UNDEFINED THEN NULL ELSE v

\* C12: row mapping is strictly positional: in every returned row the value
\* under the i-th requested dimension field is the row's i-th dimension value
\* and the value under the j-th requested metric field is the row's j-th metric
\* value; the value of the injected hostName column is projected only when the
\* caller requested it as a field.
C12_PositionalMapping ==
    \A q \in Queries :
        (Resolved(q) /\ ~HasNoRows(q) /\ ~outcome[q].threw)
            => \A r \in 1..Len(outcome[q].rows) :
                  LET out  == outcome[q].rows[r]
                      row  == response[q].rows.items[r]
                      dims == RequestedDimensionFields(q)
                      mets == RequestedMetricFields(q)
                  IN  /\ \A i \in 1..Len(dims) :
                            ValueUnder(out, dims[i].key) =
                                Shown(row.dimensionValues.items[i].value)
                      /\ \A j \in 1..Len(mets) :
                            ValueUnder(out, mets[j].key) =
                                Shown(row.metricValues.items[j].value)
                      /\ Count(row.dimensionValues) > Len(dims)
                            => \A i \in 1..Len(out) :
                                  out[i].value #
                                      row.dimensionValues.items[Len(dims) + 1].value

\* the outbound call of q was rejected
Rejects(q) == pc[q] = "done" /\ sent[q] # <<>> /\ response[q] = UNDEFINED

\* C13: a query invokes client.runReport at most once; when that call fails
\* the query fails with BadGateway, which no other failure uses, without a
\* second call and without rows.
C13_SingleCallBadGateway ==
    \A q \in Queries :
        /\ Len(sent[q]) <= 1
        /\ Rejects(q) => /\ outcome[q].threw
                         /\ outcome[q].error = "BadGateway"
                         /\ "rows" \notin DOMAIN outcome[q]
        /\ (pc[q] = "done" /\ outcome[q].threw /\ ~Rejects(q))
              => outcome[q].error # "BadGateway"

C13_Witness ==
    \E q \in Queries :
        /\ Rejects(q)
        /\ Len(sent[q]) = 1
        /\ outcome[q].threw /\ outcome[q].error = "BadGateway"

\* everything the model holds for query q
DataOf(q) == <<pc[q], request[q], local[q], sent[q], response[q], outcome[q]>>

\* a step of another query leaves the data of q as it is
Isolated ==
    \A q \in Concurrent : \A p \in Concurrent \ {q} :
        pc'[p] # pc[p] => DataOf(q)' = DataOf(q)

\* what is sent is determined by the query's own request, and its result by
\* its own request and the fate of its own call
Determined ==
    \A q \in Concurrent : \A p \in Concurrent :
        (pc[q] # "idle" /\ pc[p] # "idle" /\ request[q] = request[p])
            => /\ sent[q] = sent[p]
               /\ (pc[q] = "done" /\ pc[p] = "done" /\ response[q] = response[p])
                     => outcome[q] = outcome[p]

\* C14: queries interleaving at the outbound call are isolated: no step of
\* another query changes a query's request, locals, outbound request, error or
\* rows, and these depend only on the query's own request and response.
C14_QueryIsolation == [][Isolated /\ Determined']_vars

C14_Witness ==
    /\ pc["q1"] = "done" /\ ~outcome["q1"].threw
    /\ pc["q2"] = "awaiting"
    /\ request["q1"] # request["q2"]
    /\ RowKeys(outcome["q1"].rows[1]) = {"a", "b"}
    /\ sent["q2"][1].metrics = <<[name |-> <<"sessions">>]>>
    /\ sent["q2"][1].limit = 5

NoPredicate(q) == request[q].query.predicate \in {NULL, UNDEFINED}

\* C15: a query without predicate (null or undefined) parses to empty
\* dimension and metric filter lists without errors, and its outbound request
\* carries the mandatory scoping leaf alone as dimension filter and no metric
\* filter.
C15_NoPredicateIsIdentity ==
    \A q \in Queries :
        (pc[q] # "idle" /\ NoPredicate(q) /\ Built(q))
            => /\ local[q].filterParseResult.dimensionFilters = <<>>
               /\ local[q].filterParseResult.metricFilters = <<>>
               /\ local[q].filterParseResult.errors = <<>>
               /\ Len(sent[q]) = 1
               /\ sent[q][1].dimensionFilter = MandatoryLeaf
               /\ "metricFilter" \notin DOMAIN sent[q][1]

C15_Witness ==
    \E q \in Queries :
        /\ pc[q] = "awaiting"
        /\ request[q].query.predicate = UNDEFINED
        /\ local[q].filterParseResult.errors = <<>>
        /\ sent[q][1].dimensionFilter = MandatoryLeaf

\* a selected field that names neither a dimension nor a metric
Unclassified(fieldDef) ==
    \/ fieldDef.type # "column"
    \/ Head(fieldDef.column) \notin {"dimension_", "metric_"}

UnclassifiedKeys(q) ==
    {SelectedEntries(q)[i].key :
        i \in {j \in 1..Len(SelectedEntries(q)) : Unclassified(SelectedEntries(q)[j].value)}}

NamesOf(list) == {list[i].name : i \in 1..Len(list)}

\* C16: a requested field that is not a column, or whose column has neither
\* prefix, is no error during field selection: it is in neither collected
\* list, adds nothing to the outbound request and is no key of a returned row.
C16_UnclassifiedFieldIgnored ==
    \A q \in Queries :
        (pc[q] # "idle" /\ UnclassifiedKeys(q) # {})
            => /\ \A k \in UnclassifiedKeys(q) :
                     /\ ~ObjHas(local[q].requestedDimensions, k)
                     /\ ~ObjHas(local[q].requestedMetrics, k)
                     /\ (pc[q] = "done" /\ ~outcome[q].threw)
                           => \A r \in 1..Len(outcome[q].rows) :
                                 k \notin RowKeys(outcome[q].rows[r])
               /\ (request[q].arguments.dateRange = UNDEFINED /\ NoPredicate(q))
                     => Len(sent[q]) = 1
               /\ \A i \in 1..Len(sent[q]) :
                     /\ Len(sent[q][i].dimensions) = Len(RequestedDimensionFields(q)) + 1
                     /\ Len(sent[q][i].metrics) = Len(RequestedMetricFields(q))
                     /\ NamesOf(sent[q][i].dimensions) \subseteq
                            {Tail(RequestedDimensionFields(q)[j].value.column) :
                                j \in 1..Len(RequestedDimensionFields(q))}
                            \cup {<<"hostName">>}
                     /\ NamesOf(sent[q][i].metrics) \subseteq
                            {Tail(RequestedMetricFields(q)[j].value.column) :
                                j \in 1..Len(RequestedMetricFields(q))}

C16_Witness ==
    \E q \in Queries :
        /\ pc[q] = "done" /\ ~outcome[q].threw
        /\ request[q].query.fields =
              JsObject(<<[key |-> "a", value |-> [type |-> "column", column |-> PlainCountry]],
                         [key |-> "b", value |-> [type |-> "column", column |-> MetricSessions]]>>)
        /\ RowKeys(outcome[q].rows[1]) = {"b"}
        /\ sent[q][1].dimensions = <<[name |-> <<"hostName">>]>>

\* the parse result of q's predicate
Parsed(q) == local[q].filterParseResult

\* q's predicate is a node of the given type and has been parsed
ParsedNode(q, type) ==
    /\ pc[q] # "idle" /\ Built(q) /\ ~NoPredicate(q)
    /\ request[q].query.predicate.type = type

\* what parsing each expression alone yields, concatenated in order
RECURSIVE EachAlone(_, _)
EachAlone(b, expressions) ==
    IF expressions = <<>> THEN EmptyParseResult
    ELSE LET head == parsePredicateFilters(b, Head(expressions))
             rest == EachAlone(b, Tail(expressions))
         IN  [dimensionFilters |-> head.dimensionFilters \o rest.dimensionFilters,
              metricFilters    |-> head.metricFilters \o rest.metricFilters,
              errors           |-> head.errors \o rest.errors]

\* C17: parsing and(c1..cn) yields, for the dimension filters, the metric
\* filters and the errors, the in-order concatenation of what parsing each
\* child alone yields: a failing child does not stop the extraction from its
\* siblings and every child's errors are kept.
C17_AndIsCompositional ==
    \A q \in Queries :
        ParsedNode(q, "and")
            => Parsed(q) = EachAlone(build, request[q].query.predicate.expressions)

C17_Witness ==
    \E q \in Queries :
        /\ ParsedNode(q, "and")
        /\ request[q].query.predicate.expressions = <<CountryGtUS, SessionsEq100>>
        /\ Len(Parsed(q).errors) = 1
        /\ Len(Parsed(q).metricFilters) = 1

\* the predicate has an or node in the part the parser walks
RECURSIVE ContainsOr(_)
ContainsOr(expression) ==
    /\ expression \notin {NULL, UNDEFINED}
    /\ \/ expression.type = "or"
       \/ /\ expression.type = "and"
          /\ \E i \in 1..Len(expression.expressions) :
                ContainsOr(expression.expressions[i])

OR_NOTE == "OR expressions are not fully supported yet"

\* C18: parsing or(children) yields the dimension and metric filter lists of
\* and(children) and the errors of and(children) plus one error recorded in
\* any case; a predicate with an or node in its walked part makes the query
\* fail before any outbound call.
C18_OrIsAndPlusError ==
    \A q \in Queries :
        /\ ParsedNode(q, "or")
              => LET conj == parsePredicateFilters(build,
                                 And(request[q].query.predicate.expressions))
                 IN  /\ Parsed(q).dimensionFilters = conj.dimensionFilters
                     /\ Parsed(q).metricFilters = conj.metricFilters
                     /\ Parsed(q).errors = <<OR_NOTE>> \o conj.errors
        /\ (pc[q] # "idle" /\ ContainsOr(request[q].query.predicate))
              => /\ pc[q] = "done"
                 /\ outcome[q].threw
                 /\ sent[q] = <<>>

C18_Witness ==
    \E q \in Queries :
        /\ ParsedNode(q, "or")
        /\ request[q].query.predicate.expressions = <<CountryEqUS, SessionsEq100>>
        /\ Len(Parsed(q).dimensionFilters) = 1
        /\ Len(Parsed(q).metricFilters) = 1
        /\ Parsed(q).errors = <<OR_NOTE>>
        /\ outcome[q].threw /\ sent[q] = <<>>

\* node types the parser reports without looking inside the node
Opaque(type) == type \notin {"and", "or", "binary_comparison_operator"}

\* C19: a not, exists or unary_comparison_operator node, and a node with an
\* unrecognized type tag, adds exactly one error and no filter: nothing below
\* the node is walked.
C19_UnsupportedNodesOneError ==
    \A q \in Queries :
        (pc[q] # "idle" /\ Built(q) /\ ~NoPredicate(q))
            => LET p == request[q].query.predicate
               IN  /\ Opaque(p.type)
                         => /\ Parsed(q).dimensionFilters = <<>>
                            /\ Parsed(q).metricFilters = <<>>
                            /\ Len(Parsed(q).errors) = 1
                   /\ (p.type = "and"
                          /\ \A i \in 1..Len(p.expressions) : Opaque(p.expressions[i].type))
                         => /\ Parsed(q).dimensionFilters = <<>>
                            /\ Parsed(q).metricFilters = <<>>
                            /\ Len(Parsed(q).errors) = Len(p.expressions)

C19_Witness ==
    \E q \in Queries :
        /\ pc[q] # "idle" /\ Built(q)
        /\ request[q].query.predicate = [type |-> "not", expression |-> CountryEqUS]
        /\ Parsed(q).dimensionFilters = <<>>
        /\ Len(Parsed(q).errors) = 1

\* a literal value a comparison can be made with
IsLiteral(value) == value.type = "scalar" /\ value.value \notin {NULL, UNDEFINED}

\* C20: the kind of a column follows from its name prefix alone: parsed
\* dimension filters are on dimension_ columns only and parsed metric filters
\* on metric_ columns only, and a comparison with a supported operator and a
\* literal value on a column with neither prefix yields an error and no filter.
C20_ClassificationByPrefix ==
    \A q \in Queries :
        (pc[q] # "idle" /\ Built(q))
            => /\ \A i \in 1..Len(Parsed(q).dimensionFilters) :
                     Head(Parsed(q).dimensionFilters[i].columnName) = "dimension_"
               /\ \A i \in 1..Len(Parsed(q).metricFilters) :
                     Head(Parsed(q).metricFilters[i].columnName) = "metric_"
               /\ ParsedNode(q, "binary_comparison_operator")
                     => LET p == request[q].query.predicate
                        IN  /\ KindOf(p.column) = "dimension" => Parsed(q).metricFilters = <<>>
                            /\ KindOf(p.column) = "metric" => Parsed(q).dimensionFilters = <<>>
                            /\ (KindOf(p.column) = "none" /\ "name" \in DOMAIN p.column
                                    /\ p.operator \in {"_eq", "_gt", "_lt", "_like"}
                                    /\ IsLiteral(p.value))
                                  => /\ Parsed(q).dimensionFilters = <<>>
                                     /\ Parsed(q).metricFilters = <<>>
                                     /\ Len(Parsed(q).errors) = 1

C20_Witness ==
    \E q \in Queries :
        /\ ParsedNode(q, "binary_comparison_operator")
        /\ request[q].query.predicate = PlainEqUS
        /\ Parsed(q).dimensionFilters = <<>>
        /\ Parsed(q).metricFilters = <<>>
        /\ Parsed(q).errors = <<"Column is neither a dimension nor a metric">>

\* C21: a binary comparison whose value is a bound variable or a column
\* reference yields one error and no filter, nothing is thrown while parsing,
\* and the query fails before any outbound call.
C21_NonLiteralValueFails ==
    \A q \in Queries :
        (ParsedNode(q, "binary_comparison_operator")
            /\ request[q].query.predicate.value.type \in {"variable", "column"})
            => /\ Parsed(q).dimensionFilters = <<>>
               /\ Parsed(q).metricFilters = <<>>
               /\ Len(Parsed(q).errors) = 1
               /\ pc[q] = "done"
               /\ outcome[q].threw
               /\ outcome[q].error = "UnprocessableContent"
               /\ outcome[q].message = "Resolving filters failed"
               /\ sent[q] = <<>>

C21_Witness ==
    \E q \in Queries :
        /\ ParsedNode(q, "binary_comparison_operator")
        /\ request[q].query.predicate =
              Comparison(Column(DimensionCountry), "_eq", [type |-> "variable", name |-> "v"])
        /\ Parsed(q).errors = <<"Failed to extract value from comparison">>
        /\ outcome[q].threw /\ sent[q] = <<>>

\* the leaves of a filter tree, in order
LeavesOf(tree) ==
    IF tree = UNDEFINED THEN <<>>
    ELSE IF "filter" \in DOMAIN tree THEN <<tree.filter>>
    ELSE [i \in 1..Len(tree.andGroup.expressions) |-> tree.andGroup.expressions[i].filter]

\* the number a literal converts to, where it converts to one
ConvertsToNumber(v) ==
    \/ v.t = "number"
    \/ v.t = "boolean"
    \/ v.t = "string" /\ v.v \in {"100", ""}

Converted(v) ==
    CASE v.t = "number"  -> v.v
      [] v.t = "boolean" -> IF v.v THEN 1 ELSE 0
      [] v.t = "string"  -> IF v.v = "100" THEN 100 ELSE 0

\* parsed filters whose value converts to a number
RECURSIVE NumberValued(_)
NumberValued(filters) ==
    IF filters = <<>> THEN <<>>
    ELSE IF ConvertsToNumber(Head(filters).value)
         THEN <<Head(filters)>> \o NumberValued(Tail(filters))
         ELSE NumberValued(Tail(filters))

\* C22: in the builder a parsed dimension filter whose value is not a string
\* (a number included) gives an error and no leaf, and a parsed metric filter
\* whose value does not convert to a number gives an error and no leaf; no
\* value is coerced into a passing one, and the other filters of the list are
\* still converted.
C22_BuilderValueTypes ==
    \A q \in Queries :
        (pc[q] # "idle" /\ Built(q))
            => LET dims  == Parsed(q).dimensionFilters
                   mets  == Parsed(q).metricFilters
                   built == local[q].ga4Filters
                   dimLeaves == LeavesOf(built.dimensionFilter)
                   metLeaves == LeavesOf(built.metricFilter)
                   goodDims  == StringValued(dims)
                   goodMets  == NumberValued(mets)
               IN  /\ Len(dimLeaves) = 1 + Len(goodDims)
                   /\ \A i \in 1..Len(goodDims) :
                         dimLeaves[i + 1].stringFilter.value = goodDims[i].value.v
                   /\ Len(metLeaves) = Len(goodMets)
                   /\ \A i \in 1..Len(goodMets) :
                         metLeaves[i].numericFilter.value.doubleValue =
                             Converted(goodMets[i].value)
                   /\ Len(built.errors) = Len(Parsed(q).errors)
                         + (Len(dims) - Len(goodDims)) + (Len(mets) - Len(goodMets))

C22_Witness ==
    \E q \in Queries :
        /\ pc[q] # "idle" /\ Built(q)
        /\ request[q].query.predicate = And(<<CountryEq100, CountryEqUS>>)
        /\ Parsed(q).errors = <<>>
        /\ Len(local[q].ga4Filters.errors) = 1
        /\ Len(LeavesOf(local[q].ga4Filters.dimensionFilter)) = 2
        /\ LeavesOf(local[q].ga4Filters.dimensionFilter)[2].stringFilter.value = "US"

\* the leaf the operator table gives a convertible metric filter
MetricLeaf(f) ==
    [fieldName |-> Tail(f.columnName),
     numericFilter |->
        [operation |-> CASE f.operator = "_eq" -> "EQUAL"
                         [] f.operator = "_gt" -> "GREATER_THAN"
                         [] f.operator = "_lt" -> "LESS_THAN",
         value |-> [doubleValue |-> Converted(f.value)]]]

\* C23: for k converted metric filters the metric filter is absent when
\* k = 0, the single leaf when k = 1 and an AND-group of the k leaves in
\* predicate order when k >= 2; the mandatory leaf is never in it.
C23_MetricFilterCombination ==
    \A q \in Queries :
        (pc[q] # "idle" /\ Built(q))
            => LET good == NumberValued(Parsed(q).metricFilters)
                   tree == local[q].ga4Filters.metricFilter
                   k    == Len(good)
               IN  /\ k = 0 => /\ tree = UNDEFINED
                               /\ \A i \in 1..Len(sent[q]) :
                                     "metricFilter" \notin DOMAIN sent[q][i]
                   /\ k = 1 => tree = [filter |-> MetricLeaf(good[1])]
                   /\ k >= 2 =>
                         tree = [andGroup |-> [expressions |->
                                    [i \in 1..k |-> [filter |-> MetricLeaf(good[i])]]]]
                   /\ k >= 1 => \A i \in 1..Len(sent[q]) : sent[q][i].metricFilter = tree
                   /\ \A i \in 1..Len(LeavesOf(tree)) :
                         LeavesOf(tree)[i] # MandatoryLeaf.filter

C23_Witness ==
    \E q \in Queries :
        /\ pc[q] = "awaiting"
        /\ request[q].query.predicate = And(<<SessionsEq100, SessionsGt100>>)
        /\ build = "part_003"
        /\ Len(sent[q][1].metricFilter.andGroup.expressions) = 2
        /\ sent[q][1].metricFilter.andGroup.expressions[2].filter.numericFilter.operation
              = "GREATER_THAN"

\* the expression is a tree of and nodes and binary comparisons
RECURSIVE AndComparisonTree(_)
AndComparisonTree(expression) ==
    \/ expression.type = "binary_comparison_operator"
    \/ /\ expression.type = "and"
       /\ \A i \in 1..Len(expression.expressions) :
             AndComparisonTree(expression.expressions[i])

RECURSIVE SumOver(_, _)
RECURSIVE Comparisons(_)

\* the sum of the comparison counts of a list of expressions
SumOver(expressions, i) ==
    IF i > Len(expressions) THEN 0
    ELSE Comparisons(expressions[i]) + SumOver(expressions, i + 1)

\* the number of binary comparison nodes of an and/comparison tree
Comparisons(expression) ==
    IF expression.type = "binary_comparison_operator" THEN 1
    ELSE SumOver(expression.expressions, 1)

\* C24: every binary comparison the parser visits adds exactly one item,
\* one parsed filter in one of the two lists or one error: after parsing a
\* tree of and nodes and comparisons the sizes of the three lists add up to
\* the number of comparisons.
C24_OneItemPerComparison ==
    \A q \in Queries :
        (pc[q] # "idle" /\ Built(q) /\ ~NoPredicate(q)
            /\ AndComparisonTree(request[q].query.predicate))
            => Len(Parsed(q).dimensionFilters) + Len(Parsed(q).metricFilters)
                  + Len(Parsed(q).errors)
               = Comparisons(request[q].query.predicate)

C24_Witness ==
    \E q \in Queries :
        /\ pc[q] # "idle" /\ Built(q)
        /\ request[q].query.predicate = And(<<And(<<CountryEqUS, SessionsEq100>>), PlainEqUS>>)
        /\ Len(Parsed(q).dimensionFilters) = 1
        /\ Len(Parsed(q).metricFilters) = 1
        /\ Len(Parsed(q).errors) = 1

\* the tree is the given filter or an AND-group with the given filter among
\* its expressions
KeepsFilter(tree, existing) ==
    \/ tree = existing
    \/ /\ tree # UNDEFINED /\ "andGroup" \in DOMAIN tree
       /\ \E i \in 1..Len(tree.andGroup.expressions) :
             tree.andGroup.expressions[i] = existing

\* C25: buildGA4Filters never drops the existing dimension filter: whatever
\* the existing filter (a single leaf or an AND-group) and the parse result,
\* the returned dimensionFilter is that filter or an AND-group containing it.
C25_ExistingFilterKept ==
    (bpc = "built" /\ bIn.existing # UNDEFINED)
        => KeepsFilter(bOut.dimensionFilter, bIn.existing)

\* the response carries a value at that place
Present(v) == v # UNDEFINED /\ v # NULL

\* C26: in every returned row the value under a requested field is null only
\* when the response has no value at that position, and a value the response
\* has at that position is returned unchanged.
C26_NullOnlyWhenAbsent ==
    \A q \in Queries :
        (Resolved(q) /\ ~HasNoRows(q) /\ ~outcome[q].threw)
            => \A r \in 1..Len(outcome[q].rows) :
                  LET out  == outcome[q].rows[r]
                      row  == response[q].rows.items[r]
                      dims == RequestedDimensionFields(q)
                      mets == RequestedMetricFields(q)
                  IN  /\ \A i \in 1..Len(dims) :
                            LET v == row.dimensionValues.items[i].value
                            IN  /\ ValueUnder(out, dims[i].key) = NULL => ~Present(v)
                                /\ Present(v) => ValueUnder(out, dims[i].key) = v
                      /\ \A j \in 1..Len(mets) :
                            LET v == row.metricValues.items[j].value
                            IN  /\ ValueUnder(out, mets[j].key) = NULL => ~Present(v)
                                /\ Present(v) => ValueUnder(out, mets[j].key) = v

\* the YYYY-MM-DD string of the dates the requests of the model carry
Canonical(x) ==
    CASE x = JsString(Us(Y2024, <<"1">>, <<"5">>)) -> JsString(Iso(Y2024, Jan, D05))
      [] x = JsString(IsoT(Y2024, Dec, D31, <<"1", "0", ":", "3", "0", ":", "0", "0">>))
            -> JsString(Iso(Y2024, Dec, D31))
      [] OTHER -> x

\* one side of the range holds no date under either key
Lacking(x) == x \in {UNDEFINED, JsString(<<>>)}

\* a literal dateRange whose value is an object
LiteralObjectRange(q) ==
    IsLiteralRange(q) /\ request[q].arguments.dateRange.value # NULL

====
